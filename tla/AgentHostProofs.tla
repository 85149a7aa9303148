---------------------------- MODULE AgentHostProofs ----------------------------
(***************************************************************************)
(* Of the Agent Host and its window.  First AgentPermissions for every     *)
(* number of clients, requests and turns: a request is decided by one      *)
(* party, once, and nobody waits unseen.  Then ChatProjection for every    *)
(* number of turns, chunks, tool calls and messages.                       *)
(***************************************************************************)
EXTENDS AgentPermissions, ChatProjection, SequenceTheorems,
        WellFoundedInduction, TLAPS

\* Somebody has taken request p out of the map and will settle it.
Taken(p) == \E j \in jobs : j.perm = p

\* The right to decide a request is in one place: in the map, with the reader
\* that took it out, or in the answer on its way.  Before the request is
\* registered and after its goroutine has returned it is nowhere.
OnePlace ==
    \A p \in Perms :
        /\ handler[p] \in {"idle", "returned"} =>
                p \notin pending /\ response[p] = << >> /\ ~Taken(p)
        /\ p \in pending => response[p] = << >> /\ ~Taken(p)
        /\ Taken(p) => response[p] = << >>

\* Only the settling reader holds permissions, each of them once.
ReaderHolds ==
    /\ jobs # {} => reader.at = "settling"
    /\ \A j, k \in jobs : j.perm = k.perm => j = k

\* An "allow" that is on its way was given by a subscriber, and a request that
\* was never registered names no turn.
AllowsApproved ==
    /\ \A j \in jobs : j.decision = "allow" => j.perm \in approved
    /\ \A p \in Perms :
        /\ response[p] = <<"allow">> => p \in approved
        /\ handler[p] = "idle" => permTurn[p] = 0
        /\ handler[p] # "returned" => verdict[p] = "none"

\* The inductive invariant.
IInv == /\ TypeOK /\ OnePlace /\ ReaderHolds /\ AllowsApproved
        /\ OnlyApprovedRuns /\ WaitingIsVisible

-----------------------------------------------------------------------------

LEMMA InitIInv == Init => IInv
<1> SUFFICES ASSUME Init PROVE IInv
  OBVIOUS
<1> USE PermissionsAssumption DEF Init
<1>1. TypeOK
  <2>1. /\ turn \in 0..MaxTurns /\ lastTurn \in 0..MaxTurns /\ event \in 0..MaxTurns
        /\ permTurn \in [Perms -> 0..MaxTurns] /\ mode \in Modes
        /\ reader \in [at : {"idle", "starting", "disposing", "settling"},
                       mode : Modes, then : 0..MaxTurns]
    BY DEF Modes, Idle
  <2>2. /\ live \in BOOLEAN /\ closed \in BOOLEAN /\ jobs \subseteq Jobs
        /\ response \in [Perms -> {<< >>} \cup {<<d>> : d \in Decisions}]
    OBVIOUS
  <2> QED  BY <2>1, <2>2 DEF TypeOK
<1>2. OnePlace /\ ReaderHolds /\ AllowsApproved
  BY DEF OnePlace, ReaderHolds, AllowsApproved, Taken
<1>3. OnlyApprovedRuns /\ WaitingIsVisible
  BY DEF OnlyApprovedRuns, WaitingIsVisible
<1> QED  BY <1>1, <1>2, <1>3 DEF IInv


-----------------------------------------------------------------------------
(* Steps *)

\* What concerns one request only is kept for those the step leaves alone.
Local(p) ==
    /\ handler[p] \in {"idle", "returned"} =>
            p \notin pending /\ response[p] = << >> /\ ~Taken(p)
    /\ p \in pending => response[p] = << >> /\ ~Taken(p)
    /\ Taken(p) => response[p] = << >>
    /\ response[p] = <<"allow">> => p \in approved
    /\ handler[p] = "idle" => permTurn[p] = 0
    /\ handler[p] # "returned" => verdict[p] = "none"
    /\ verdict[p] = "allow" /\ permTurn[p] # 0 => p \in approved
    /\ live /\ handler[p] = "waiting" /\ p \in pending => p \in inputNeeded

\* The part of the invariant that is about single requests.
LEMMA LocalInv ==
    (OnePlace /\ AllowsApproved /\ OnlyApprovedRuns /\ WaitingIsVisible)
      <=> /\ \A p \in Perms : Local(p)
          /\ \A j \in jobs : j.decision = "allow" => j.perm \in approved
  BY DEF OnePlace, AllowsApproved, OnlyApprovedRuns, WaitingIsVisible, Local

\* A step of the asking goroutine of p.
LEMMA AskKeeps ==
    ASSUME IInv, NEW p \in Perms,
           AskRefused(p) \/ AskGranted(p) \/ AskPends(p) \/ AskStep(p)
    PROVE  IInv'
<1> USE PermissionsAssumption DEF IInv, sessionVars, askVars
<1>1. /\ UNCHANGED <<sessionVars, reader, jobs, event, approved>>
      /\ \A q \in Perms \ {p} :
            /\ handler'[q] = handler[q] /\ verdict'[q] = verdict[q]
            /\ permTurn'[q] = permTurn[q] /\ response'[q] = response[q]
            /\ q \in pending' <=> q \in pending
            /\ q \in inputNeeded' <=> q \in inputNeeded
  BY DEF AskRefused, AskGranted, AskPends, AskStep, EmitToolCall, EmitInputNeeded,
         ReceiveDecision, Returns, TypeOK
<1>2. ReaderHolds'
  BY <1>1 DEF ReaderHolds
<1>3. \A q \in Perms : Local(q) /\ Taken(q)' = Taken(q)
  BY <1>1, LocalInv DEF Taken
<1>4. \A q \in Perms \ {p} : Local(q)'
  BY <1>1, <1>3 DEF Local
<1>5. TypeOK' /\ Local(p)'
  <2>1. CASE AskRefused(p) \/ AskGranted(p)
    <3>1. /\ handler[p] = "idle" /\ handler' = [handler EXCEPT ![p] = "returned"]
          /\ \E d \in Decisions : verdict' = [verdict EXCEPT ![p] = d]
          /\ UNCHANGED <<pending, permTurn, response, inputNeeded>>
      BY <2>1 DEF AskRefused, AskGranted, Returns, Decisions
    <3>2. TypeOK'
      BY <1>1, <3>1 DEF TypeOK
    <3>3. handler'[p] = "returned" /\ permTurn'[p] = 0
      BY <1>3, <3>1 DEF TypeOK, Local
    <3> QED  BY <1>1, <1>3, <3>1, <3>2, <3>3 DEF Local
  <2>2. CASE AskPends(p)
    <3>1. TypeOK'
      BY <1>1, <2>2 DEF TypeOK, AskPends
    <3>2. /\ handler'[p] = "registered" /\ permTurn'[p] # 0
          /\ UNCHANGED <<response, verdict>> /\ handler[p] = "idle"
      BY <2>2 DEF TypeOK, AskPends
    <3> QED  BY <1>1, <1>3, <3>1, <3>2 DEF Local
  <2>3. CASE EmitToolCall(p)
    <3>1. TypeOK'
      BY <1>1, <2>3 DEF TypeOK, EmitToolCall
    <3>2. /\ handler'[p] = "announced" /\ handler[p] = "registered"
          /\ UNCHANGED <<pending, permTurn, response, inputNeeded, verdict>>
      BY <2>3 DEF TypeOK, EmitToolCall
    <3> QED  BY <1>1, <1>3, <3>1, <3>2 DEF Local
  <2>4. CASE EmitInputNeeded(p)
    <3>1. TypeOK'
      BY <1>1, <2>4 DEF TypeOK, EmitInputNeeded
    <3>2. /\ handler'[p] = "waiting" /\ handler[p] = "announced"
          /\ UNCHANGED <<pending, permTurn, response, verdict>>
          /\ live => p \in inputNeeded'
      BY <2>4 DEF TypeOK, EmitInputNeeded
    <3> QED  BY <1>1, <1>3, <3>1, <3>2 DEF Local
  <2>5. CASE ReceiveDecision(p)
    <3>1. PICK d \in Decisions : response[p] = <<d>>
      BY <2>5 DEF TypeOK, ReceiveDecision
    <3>2. /\ handler'[p] = "returned" /\ verdict'[p] = d
          /\ response'[p] = << >> /\ p \notin pending'
          /\ UNCHANGED <<permTurn, inputNeeded>>
      BY <2>5, <3>1 DEF TypeOK, ReceiveDecision, Returns
    <3>3. ~Taken(p) /\ (d = "allow" => p \in approved)
      BY <1>3, <3>1 DEF Local
    <3>4. TypeOK'
      BY <1>1, <2>5, <3>1 DEF TypeOK, ReceiveDecision, Returns
    <3> QED  BY <1>1, <1>3, <3>2, <3>3, <3>4 DEF Local
  <2> QED  BY <2>1, <2>2, <2>3, <2>4, <2>5 DEF AskStep
<1>6. \A j \in jobs' : j.decision = "allow" => j.perm \in approved'
  BY <1>1 DEF AllowsApproved
<1>7. \A q \in Perms : Local(q)'
  BY <1>4, <1>5
<1>8. OnePlace' /\ AllowsApproved' /\ OnlyApprovedRuns' /\ WaitingIsVisible'
  BY <1>6, <1>7 DEF OnePlace, AllowsApproved, OnlyApprovedRuns,
     WaitingIsVisible, Local
<1> QED  BY <1>2, <1>5, <1>8

\* Steps that touch no request: subscriptions, turns, their modes and ends.
LEMMA TurnsKeep ==
    ASSUME IInv,
           \/ \E c \in Clients : Subscribe(c) \/ Unsubscribe(c)
           \/ \E m \in Modes : StartTurn(m)
           \/ StoreMode \/ SettleDone \/ ReadActiveTurn \/ CompleteTurn
    PROVE  IInv'
<1> USE PermissionsAssumption DEF IInv, sessionVars, askVars, Ready
<1>1. /\ UNCHANGED <<live, pending, response, inputNeeded, askVars, jobs, approved>>
      /\ jobs # {} => reader'.at = "settling"
  BY DEF Subscribe, Unsubscribe, StartTurn, StoreMode, SettleDone, ReadActiveTurn,
         CompleteTurn, ReaderHolds, Idle
<1>2. TypeOK'
  <2>1. CASE \E c \in Clients : Subscribe(c) \/ Unsubscribe(c)
    BY <2>1 DEF TypeOK, Subscribe, Unsubscribe
  <2>2. CASE \E m \in Modes : StartTurn(m)
    BY <2>2 DEF TypeOK, StartTurn, Starting
  <2>3. CASE StoreMode
    BY <2>3 DEF TypeOK, StoreMode, Idle, Modes
  <2>4. CASE SettleDone
    BY <2>4 DEF TypeOK, SettleDone, Idle, Modes
  <2>5. CASE ReadActiveTurn \/ CompleteTurn
    BY <2>5 DEF TypeOK, ReadActiveTurn, CompleteTurn
  <2> QED  BY <2>1, <2>2, <2>3, <2>4, <2>5
<1>3. OnePlace' /\ ReaderHolds'
  BY <1>1 DEF OnePlace, ReaderHolds, Taken
<1>4. AllowsApproved' /\ OnlyApprovedRuns' /\ WaitingIsVisible'
  BY <1>1 DEF AllowsApproved, OnlyApprovedRuns, WaitingIsVisible
<1> QED  BY <1>2, <1>3, <1>4

\* A reader that takes nothing on its shoulders but the permissions S, which
\* were in the map: those of an answer, of a cancellation or of a disposal.
LEMMA TakingKeeps ==
    ASSUME IInv, NEW S \in SUBSET pending, NEW d \in Decisions,
           jobs = {}, pending' = pending \ S,
           jobs' = {Job(p, d, "remove") : p \in S},
           reader'.at = "settling", live' => live, approved \subseteq approved',
           d = "allow" => S \subseteq approved',
           UNCHANGED <<response, askVars, inputNeeded>>
    PROVE  /\ OnePlace' /\ ReaderHolds' /\ AllowsApproved'
           /\ OnlyApprovedRuns' /\ WaitingIsVisible' /\ jobs' \subseteq Jobs
<1> USE DEF IInv, askVars
<1>1. /\ S \subseteq Perms
      /\ \A j \in jobs' : j.perm \in S /\ j = Job(j.perm, d, "remove")
      /\ \A p \in Perms : Taken(p)' <=> p \in S
  <2>1. S \subseteq Perms
    BY DEF TypeOK
  <2>2. \A j \in jobs' : j.perm \in S /\ j = Job(j.perm, d, "remove")
    BY DEF Job
  <2>3. \A p \in S : Job(p, d, "remove") \in jobs' /\ Job(p, d, "remove").perm = p
    BY DEF Job
  <2> QED  BY <2>1, <2>2, <2>3 DEF Taken
<1>2. OnePlace'
  BY <1>1 DEF OnePlace
<1>3. ReaderHolds'
  BY <1>1 DEF ReaderHolds
<1>4. AllowsApproved' /\ OnlyApprovedRuns'
  BY <1>1 DEF AllowsApproved, OnlyApprovedRuns, Job
<1>5. WaitingIsVisible'
  BY DEF WaitingIsVisible
<1>6. jobs' \subseteq Jobs
  BY <1>1 DEF Job, Jobs
<1> QED  BY <1>2, <1>3, <1>4, <1>5, <1>6

\* The steps in which the reader takes permissions out of the map, and the
\* beginning of a disposal.
LEMMA ReaderWorks ==
    ASSUME IInv,
           \/ \E c \in Clients, p \in Perms, yes \in BOOLEAN : Confirm(c, p, yes)
           \/ CancelSession \/ CancelTurn \/ DisposeSession \/ DisposeCancels
           \/ HostClose
    PROVE  IInv'
<1> USE PermissionsAssumption DEF sessionVars, askVars
<1>0. jobs = {} /\ TypeOK /\ pending \subseteq Perms
  BY DEF IInv, ReaderHolds, TypeOK, Confirm, CancelSession, CancelTurn, DisposeSession,
         DisposeCancels, HostClose, Ready, Idle
<1>1. ASSUME NEW c \in Clients, NEW p \in Perms, NEW yes \in BOOLEAN, Confirm(c, p, yes)
      PROVE  IInv'
  <2>1. CASE c \in subs
    <3> DEFINE d == IF yes THEN "allow" ELSE "deny"
    <3>1. /\ p \in pending /\ pending' = pending \ {p}
          /\ jobs' = {Job(p, d, "remove")} /\ reader' = Settling(0)
          /\ approved' = IF yes THEN approved \cup {p} ELSE approved
          /\ UNCHANGED <<sessionVars, response, inputNeeded, askVars, event>>
      BY <1>1, <2>1 DEF Confirm, Matches, Take
    <3>2. jobs' = {Job(q, d, "remove") : q \in {p}} /\ d \in Decisions
      BY <3>1 DEF Decisions
    <3>3. reader'.at = "settling" /\ (d = "allow" => {p} \subseteq approved')
      BY <3>1 DEF Settling
    <3> HIDE DEF d
    <3>4. /\ OnePlace' /\ ReaderHolds' /\ AllowsApproved'
          /\ OnlyApprovedRuns' /\ WaitingIsVisible' /\ jobs' \subseteq Jobs
      BY <1>0, <3>1, <3>2, <3>3, TakingKeeps
    <3>5. TypeOK'
      BY <1>0, <3>1, <3>4 DEF TypeOK, Settling, Modes
    <3> QED  BY <3>4, <3>5 DEF IInv
  <2>2. CASE c \notin subs
    <3>1. UNCHANGED vars
      BY <1>1, <2>2 DEF Confirm, vars
    <3> QED  BY <3>1 DEF vars, IInv, TypeOK, OnePlace, ReaderHolds, AllowsApproved,
                OnlyApprovedRuns, WaitingIsVisible, Taken
  <2> QED  BY <2>1, <2>2
<1>2. ASSUME NEW t \in 0..MaxTurns, CancelPermissions(t), live' => live,
             UNCHANGED <<turn, lastTurn, mode, subs, response, inputNeeded,
                         askVars, event, approved>>,
             live' \in BOOLEAN, closed' \in BOOLEAN
      PROVE  IInv'
  <2>1. /\ pending' = pending \ pending /\ reader' = Settling(t)
        /\ jobs' = {Job(q, "cancel", "remove") : q \in pending}
    BY <1>2 DEF CancelPermissions, Take
  <2>2. reader'.at = "settling" /\ "cancel" \in Decisions
    BY <2>1 DEF Settling, Decisions
  <2>3. /\ OnePlace' /\ ReaderHolds' /\ AllowsApproved'
        /\ OnlyApprovedRuns' /\ WaitingIsVisible' /\ jobs' \subseteq Jobs
    BY <1>0, <1>2, <2>1, <2>2, TakingKeeps
  <2>4. TypeOK'
    BY <1>0, <1>2, <2>1, <2>3 DEF TypeOK, Settling, Modes
  <2> QED  BY <2>3, <2>4 DEF IInv
<1>3. ASSUME CancelSession \/ CancelTurn \/ DisposeCancels \/ HostClose PROVE IInv'
  <2>1. turn \in 0..MaxTurns /\ 0 \in 0..MaxTurns /\ live \in BOOLEAN /\ closed \in BOOLEAN
    BY <1>0 DEF TypeOK
  <2>2. \E t \in 0..MaxTurns : CancelPermissions(t)
    BY <1>3, <2>1 DEF CancelSession, CancelTurn, DisposeCancels, HostClose
  <2>3. /\ UNCHANGED <<live, turn, lastTurn, mode, subs, response, inputNeeded, askVars,
                       event, approved>>
        /\ closed' \in BOOLEAN
    BY <1>3, <2>1 DEF CancelSession, CancelTurn, DisposeCancels, HostClose
  <2> QED  BY <1>2, <2>1, <2>2, <2>3
<1>4. ASSUME DisposeSession PROVE IInv'
  <2>1. /\ live' = FALSE /\ jobs' = {}
        /\ UNCHANGED <<closed, lastTurn, mode, subs, pending, response, askVars, jobs,
                       event, approved>>
    BY <1>0, <1>4 DEF DisposeSession
  <2>2. TypeOK'
    <3>1. /\ reader' \in [at : {"idle", "starting", "disposing", "settling"},
                          mode : Modes, then : 0..MaxTurns]
          /\ turn' \in 0..MaxTurns /\ inputNeeded' \subseteq Perms
      BY <1>4 DEF DisposeSession, Disposing, Modes
    <3>2. live' \in BOOLEAN
      BY <2>1
    <3> QED  BY <1>0, <2>1, <3>1, <3>2 DEF TypeOK
  <2>3. OnePlace' /\ ReaderHolds' /\ AllowsApproved'
    BY <1>0, <2>1 DEF IInv, OnePlace, ReaderHolds, AllowsApproved, Taken
  <2>4. OnlyApprovedRuns' /\ WaitingIsVisible'
    BY <2>1 DEF IInv, OnlyApprovedRuns, WaitingIsVisible
  <2> QED  BY <2>2, <2>3, <2>4 DEF IInv
<1> QED  BY <1>1, <1>3, <1>4

\* The reader settles one of the permissions it holds.
LEMMA SettleKeeps ==
    ASSUME IInv, NEW j \in jobs, SettleRemove(j) \/ SettleSend(j)
    PROVE  IInv'
<1> USE DEF sessionVars, askVars
<1>0. /\ j \in Jobs /\ j = Job(j.perm, j.decision, j.stage)
      /\ j.perm \in Perms /\ j.decision \in Decisions /\ reader.at = "settling"
      /\ \A k \in jobs : k.perm = j.perm => k = j
      /\ j.decision = "allow" => j.perm \in approved
      /\ response[j.perm] = << >> /\ j.perm \notin pending
      /\ handler[j.perm] \notin {"idle", "returned"}
  BY DEF IInv, TypeOK, Jobs, Job, ReaderHolds, AllowsApproved, OnePlace, Taken
<1>1. CASE SettleRemove(j)
  <2> DEFINE k == Job(j.perm, j.decision, "send")
  <2>1. /\ inputNeeded' = inputNeeded \ {j.perm} /\ jobs' = (jobs \ {j}) \cup {k}
        /\ UNCHANGED <<sessionVars, pending, response, askVars, reader, event, approved>>
    BY <1>1 DEF SettleRemove
  <2>2. k.perm = j.perm /\ k.decision = j.decision /\ k \in Jobs
    BY <1>0 DEF Job, Jobs
  <2> HIDE DEF k
  <2>3. \A p \in Perms : Taken(p)' = Taken(p)
    BY <1>0, <2>1, <2>2 DEF Taken
  <2>4. TypeOK'
    BY <2>1, <2>2 DEF IInv, TypeOK
  <2>5. OnePlace'
    BY <2>1, <2>3 DEF IInv, OnePlace
  <2>6. ReaderHolds' /\ AllowsApproved'
    BY <1>0, <2>1, <2>2 DEF IInv, ReaderHolds, AllowsApproved
  <2>7. OnlyApprovedRuns' /\ WaitingIsVisible'
    BY <1>0, <2>1 DEF IInv, OnlyApprovedRuns, WaitingIsVisible
  <2> QED  BY <2>4, <2>5, <2>6, <2>7 DEF IInv
<1>2. CASE SettleSend(j)
  <2>1. /\ \A p \in Perms : response'[p] = IF p = j.perm THEN <<j.decision>> ELSE response[p]
        /\ response' \in [Perms -> {<< >>} \cup {<<d>> : d \in Decisions}]
        /\ jobs' = jobs \ {j}
        /\ UNCHANGED <<sessionVars, pending, inputNeeded, askVars, reader, event, approved>>
    <3>1. Append(<< >>, j.decision) = <<j.decision>>
      OBVIOUS
    <3> QED  BY <1>0, <1>2, <3>1 DEF IInv, TypeOK, SettleSend
  <2>2. \A p \in Perms : Taken(p)' <=> Taken(p) /\ p # j.perm
    BY <1>0, <2>1 DEF Taken
  <2>3. TypeOK'
    BY <2>1 DEF IInv, TypeOK
  <2>4. OnePlace'
    BY <1>0, <2>1, <2>2 DEF IInv, OnePlace
  <2>5. ReaderHolds' /\ AllowsApproved'
    BY <1>0, <2>1 DEF IInv, ReaderHolds, AllowsApproved
  <2>6. OnlyApprovedRuns' /\ WaitingIsVisible'
    BY <2>1 DEF IInv, OnlyApprovedRuns, WaitingIsVisible
  <2> QED  BY <2>3, <2>4, <2>5, <2>6 DEF IInv
<1> QED  BY <1>1, <1>2

LEMMA NextIInv == IInv /\ [Next]_vars => IInv'
<1> SUFFICES ASSUME IInv, [Next]_vars PROVE IInv'
  OBVIOUS
<1>1. CASE Next
  BY <1>1, AskKeeps, TurnsKeep, ReaderWorks, SettleKeeps DEF Next, ReaderStep
<1>2. CASE UNCHANGED vars
  BY <1>2 DEF vars, sessionVars, askVars, IInv, TypeOK, OnePlace, ReaderHolds, Taken,
     AllowsApproved, OnlyApprovedRuns, WaitingIsVisible
<1> QED  BY <1>1, <1>2

\* What the inductive invariant says of the properties that are checked.
LEMMA IInvImplies ==
    IInv => TypeOK /\ DecidedOnce /\ OnlyApprovedRuns /\ WaitingIsVisible
<1> SUFFICES ASSUME IInv PROVE TypeOK /\ DecidedOnce /\ OnlyApprovedRuns /\ WaitingIsVisible
  OBVIOUS
<1>1. ASSUME NEW j \in jobs
      PROVE  response[j.perm] = << >> /\ handler[j.perm] # "returned"
  <2>1. j.perm \in Perms /\ Taken(j.perm)
    BY DEF IInv, TypeOK, Jobs, Taken
  <2> QED  BY <2>1 DEF IInv, OnePlace
<1> QED  BY <1>1 DEF IInv, DecidedOnce

LEMMA Invariance == Spec => []IInv
  BY InitIInv, NextIInv, PTL DEF Spec

-----------------------------------------------------------------------------
(* Theorems *)

\* The tables of the host and the states of its goroutines keep their shapes,
\* and a goroutine that has returned carries a decision.
THEOREM TypeCorrect == Spec => []TypeOK
  BY Invariance, IInvImplies, PTL

\* The reader never blocks on an answer: whatever answers, cancellations,
\* disposals and closes meet, a permission is taken out of the map once
\* (resolveToolPermission, cancelPermissions), so its channel has room.
THEOREM ReaderNeverBlocks == Spec => []DecidedOnce
  BY Invariance, IInvImplies, PTL

\* A tool that had to ask runs only if a subscriber of the chat approved this
\* very request (handleAgentPermission, resolveToolPermission).
THEOREM ApprovedOnly == Spec => []OnlyApprovedRuns
  BY Invariance, IInvImplies, PTL

\* A goroutine that waits for an answer nobody has taken up is listed among
\* the needed input of its session (emitPermissionRequest).
THEOREM WaitersAreListed == Spec => []WaitingIsVisible
  BY Invariance, IInvImplies, PTL


-----------------------------------------------------------------------------
\* A set of numbers that is not empty has a smallest one.
LEMMA Smallest ==
  ASSUME NEW S \in SUBSET Nat, S # {}
  PROVE  \E m \in S : \A k \in S : m <= k
<1>1. PICK m \in S : \A k \in S : ~ (<<k, m>> \in OpToRel(<, Nat))
  BY NatLessThanWellFounded, WFMin
<1>2. \A k \in S : ~ (k < m)
  BY <1>1 DEF OpToRel
<1> QED BY <1>2

\* Induction with a set in the place of a predicate.
LEMMA Climb ==
  ASSUME NEW S \in SUBSET Nat, 0 \in S, \A n \in S : n + 1 \in S
  PROVE  S = Nat
<1> SUFFICES ASSUME Nat \ S # {} PROVE FALSE
  OBVIOUS
<1> DEFINE B == Nat \ S
<1>1. PICK m \in B : \A k \in B : m <= k
  BY Smallest
<1>2. m \in Nat /\ m \notin S
  BY <1>1
<1>3. m # 0
  BY <1>2
<1>4. m - 1 \in Nat /\ m - 1 \notin B
  BY <1>1, <1>2, <1>3
<1>5. m - 1 \in S /\ (m - 1) + 1 = m
  BY <1>4
<1> QED  BY <1>2, <1>5

\* The function FlattenSeq defines by recursion exists, up to any length.
LEMMA FlattenFcn ==
  ASSUME NEW s
  PROVE  \A n \in Nat : \E f : f = [i \in 1..n |-> IF i = 1 THEN s[i] ELSE f[i-1] \o s[i]]
<1> DEFINE Sol(m) == \E f : f = [i \in 1..m |-> IF i = 1 THEN s[i] ELSE f[i-1] \o s[i]]
<1> DEFINE S == {m \in Nat : Sol(m)}
<1>1. 0 \in S
  <2> DEFINE f0 == [i \in 1..0 |-> << >>]
  <2>1. f0 = [i \in 1..0 |-> IF i = 1 THEN s[i] ELSE f0[i-1] \o s[i]]
    OBVIOUS
  <2>2. Sol(0)
    BY <2>1
  <2> QED BY <2>2
<1>2. ASSUME NEW m \in S PROVE m + 1 \in S
  <2>1. PICK f : f = [i \in 1..m |-> IF i = 1 THEN s[i] ELSE f[i-1] \o s[i]]
    BY <1>2
  <2> DEFINE g == [i \in 1..m+1 |-> IF i = 1 THEN s[1] ELSE f[i-1] \o s[i]]
  <2>2. m \in Nat
    BY <1>2
  <2>3. ASSUME NEW i \in 1..m PROVE g[i] = f[i]
    <3> HIDE DEF Sol, S
    <3>1. f[i] = IF i = 1 THEN s[i] ELSE f[i-1] \o s[i]
      BY <2>1, Zenon
    <3>2. i \in 1..m+1
      BY <2>2
    <3> QED  BY <3>1, <3>2
  <2>4. ASSUME NEW i \in 1..m+1
        PROVE g[i] = IF i = 1 THEN s[i] ELSE g[i-1] \o s[i]
    <3>1. CASE i = 1
      BY <3>1
    <3>2. CASE i # 1
      <4>1. i - 1 \in 1..m
        BY <2>2, <3>2
      <4>2. g[i-1] = f[i-1]
        BY <4>1, <2>3
      <4>3. g[i] = f[i-1] \o s[i]
        BY <3>2
      <4> QED BY <3>2, <4>2, <4>3
    <3> QED BY <3>1, <3>2
  <2>5. g = [i \in 1..m+1 |-> IF i = 1 THEN s[i] ELSE g[i-1] \o s[i]]
    <3> HIDE DEF g
    <3>1. g = [i \in 1..m+1 |-> g[i]]
      BY DEF g
    <3> QED BY <3>1, <2>4
  <2>6. Sol(m+1)
    <3> HIDE DEF g
    <3> QED BY <2>5
  <2> HIDE DEF Sol, g
  <2> QED BY <2>2, <2>6
<1>3. S = Nat
  <2> HIDE DEF Sol
  <2>1. S \in SUBSET Nat
    OBVIOUS
  <2> HIDE DEF S
  <2> QED BY <1>1, <1>2, <2>1, Climb
<1> QED BY <1>3

\* FlattenSeq is the last value of that function.
LEMMA FlattenDef ==
  ASSUME NEW s, Len(s) \in Nat, Len(s) # 0
  PROVE  \E f : /\ \A i \in 1..Len(s) : f[i] = IF i = 1 THEN s[i] ELSE f[i-1] \o s[i]
                /\ FlattenSeq(s) = f[Len(s)]
<1> DEFINE g == CHOOSE f : f = [i \in 1..Len(s) |-> IF i = 1 THEN s[i] ELSE f[i-1] \o s[i]]
<1>1. FlattenSeq(s) = g[Len(s)]
  BY DEF FlattenSeq
<1>2. g = [i \in 1..Len(s) |-> IF i = 1 THEN s[i] ELSE g[i-1] \o s[i]]
  BY FlattenFcn
<1> HIDE DEF g
<1>3. \A i \in 1..Len(s) : g[i] = IF i = 1 THEN s[i] ELSE g[i-1] \o s[i]
  BY <1>2, Zenon
<1> QED BY <1>1, <1>3

\* The empty case.
LEMMA FlattenEmpty == FlattenSeq(<< >>) = << >>
<1>1. Len(<< >>) = 0
  OBVIOUS
<1> QED  BY <1>1 DEF FlattenSeq

\* Nothing in front adds nothing.
LEMMA ConcatLeft == ASSUME NEW X, NEW e \in Seq(X) PROVE << >> \o e = e
  BY ConcatEmptySeq

\* The concatenations of the beginnings of s: what FlattenSeq computes on its way.
LEMMA FlattenSteps ==
  ASSUME NEW X, NEW s \in Seq(Seq(X))
  PROVE  \E f : /\ f[0] = << >>
                /\ \A i \in 1..Len(s) : f[i] = f[i-1] \o s[i]
                /\ FlattenSeq(s) = f[Len(s)]
<1>0. Len(s) \in Nat
  BY LenProperties
<1>1. CASE Len(s) = 0
  <2> DEFINE f == [i \in {0} |-> << >>]
  <2>1. s = << >>
    BY <1>1, EmptySeq, SeqEqual
  <2>2. f[0] = << >> /\ FlattenSeq(s) = f[Len(s)]
    BY <1>1, <2>1, FlattenEmpty
  <2>3. \A i \in 1..Len(s) : f[i] = f[i-1] \o s[i]
    BY <1>1
  <2> HIDE DEF f
  <2> QED BY <2>2, <2>3
<1>2. CASE Len(s) # 0
  <2>1. PICK g : /\ \A i \in 1..Len(s) : g[i] = IF i = 1 THEN s[i] ELSE g[i-1] \o s[i]
                 /\ FlattenSeq(s) = g[Len(s)]
    BY <1>0, <1>2, FlattenDef
  <2> DEFINE f == [i \in 0..Len(s) |-> IF i = 0 THEN << >> ELSE g[i]]
  <2>2. f[0] = << >> /\ FlattenSeq(s) = f[Len(s)]
    BY <1>0, <1>2, <2>1
  <2>3. ASSUME NEW i \in 1..Len(s) PROVE f[i] = f[i-1] \o s[i]
    <3>1. f[i] = g[i]
      BY <1>0
    <3>2. CASE i = 1
      <4>1. s[1] \in Seq(X)
        BY <1>0, <3>2, ElementOfSeq
      <4>2. << >> \o s[1] = s[1]
        BY <4>1, ConcatLeft
      <4>3. f[i-1] = << >> /\ f[i] = s[1]
        BY <1>0, <2>1, <3>1, <3>2
      <4> QED BY <3>2, <4>2, <4>3
    <3>3. CASE i # 1
      <4>1. i - 1 \in 0..Len(s) /\ i - 1 # 0
        BY <1>0, <3>3
      <4>2. f[i-1] = g[i-1]
        BY <4>1
      <4>3. f[i] = g[i-1] \o s[i]
        BY <2>1, <3>1, <3>3
      <4> QED BY <4>2, <4>3
    <3> QED BY <3>2, <3>3
  <2> HIDE DEF f
  <2> QED BY <2>2, <2>3
<1> QED BY <1>1, <1>2

-----------------------------------------------------------------------------
\* f[i] is the concatenation of the first i elements of s.
Steps(f, s) == /\ f[0] = << >>
               /\ \A i \in 1..Len(s) : f[i] = f[i-1] \o s[i]

\* Two sequences of sequences begin with the same n elements.
Agree(s, t, n) == n <= Len(s) /\ n <= Len(t) /\ \A i \in 1..n : s[i] = t[i]

\* The elements of s after the n-th are empty.
Silent(s, n) == \A i \in n+1..Len(s) : s[i] = << >>

\* What begins alike concatenates alike.
LEMMA StepsSame ==
  ASSUME NEW X, NEW s \in Seq(Seq(X)), NEW t \in Seq(Seq(X)), NEW f, NEW g,
         Steps(f, s), Steps(g, t), NEW n \in Nat, Agree(s, t, n)
  PROVE  \A m \in 0..n : f[m] = g[m]
<1>0. Len(s) \in Nat /\ Len(t) \in Nat
  BY LenProperties
<1> DEFINE S == {m \in Nat : m <= n => f[m] = g[m]}
<1>1. 0 \in S
  BY DEF Steps
<1>2. ASSUME NEW m \in S PROVE m + 1 \in S
  <2>0. m \in Nat
    OBVIOUS
  <2>1. ASSUME m + 1 <= n PROVE f[m+1] = g[m+1]
    <3>1. m \in Nat /\ m + 1 \in 1..Len(s) /\ m + 1 \in 1..Len(t) /\ m + 1 \in 1..n
      BY <1>0, <2>1 DEF Agree
    <3>2. f[m+1] = f[m] \o s[m+1] /\ g[m+1] = g[m] \o t[m+1]
      <4>1. (m + 1) - 1 = m
        BY <3>1
      <4> QED BY <3>1, <4>1 DEF Steps
    <3>3. f[m] = g[m]
      BY <2>1, <3>1
    <3>4. s[m+1] = t[m+1]
      BY <3>1 DEF Agree
    <3> QED BY <3>2, <3>3, <3>4
  <2> QED BY <2>0, <2>1
<1>3. S = Nat
  <2>1. S \in SUBSET Nat
    OBVIOUS
  <2> HIDE DEF S
  <2> QED BY <1>1, <1>2, <2>1, Climb
<1> QED BY <1>3

\* FlattenSeq is the last of the steps.
LEMMA FlattenIs ==
  ASSUME NEW X, NEW s \in Seq(Seq(X)), NEW f, Steps(f, s)
  PROVE  FlattenSeq(s) = f[Len(s)]
<1>1. PICK g : Steps(g, s) /\ FlattenSeq(s) = g[Len(s)]
  BY FlattenSteps DEF Steps
<1>2. Len(s) \in Nat
  BY LenProperties
<1>3. f[Len(s)] = g[Len(s)]
  <2>1. PICK n \in Nat : n = Len(s)
    BY <1>2
  <2>2. Agree(s, s, n) /\ n \in 0..n
    BY <2>1 DEF Agree
  <2>3. \A m \in 0..n : f[m] = g[m]
    BY <1>1, <2>2, StepsSame
  <2> QED BY <2>1, <2>2, <2>3
<1> QED BY <1>1, <1>3

\* Every step is a sequence over the same elements.
LEMMA StepsType ==
  ASSUME NEW X, NEW s \in Seq(Seq(X)), NEW f, Steps(f, s)
  PROVE  \A m \in 0..Len(s) : f[m] \in Seq(X)
<1>0. Len(s) \in Nat
  BY LenProperties
<1> DEFINE S == {m \in Nat : m <= Len(s) => f[m] \in Seq(X)}
<1>1. 0 \in S
  <2>1. << >> \in Seq(X)
    BY EmptySeq
  <2> QED  BY <2>1 DEF Steps
<1>2. ASSUME NEW m \in S PROVE m + 1 \in S
  <2>0. m \in Nat
    OBVIOUS
  <2>1. ASSUME m + 1 <= Len(s) PROVE f[m+1] \in Seq(X)
    <3>1. m \in Nat /\ m + 1 \in 1..Len(s) /\ (m + 1) - 1 = m
      BY <1>0, <2>1
    <3>2. f[m+1] = f[m] \o s[m+1]
      BY <3>1 DEF Steps
    <3>3. f[m] \in Seq(X) /\ s[m+1] \in Seq(X)
      BY <1>0, <2>1, <3>1, ElementOfSeq
    <3>4. f[m] \o s[m+1] \in Seq(X)
      BY <3>3, ConcatProperties
    <3> QED BY <3>2, <3>4
  <2> QED BY <2>0, <2>1
<1>3. S = Nat
  <2>1. S \in SUBSET Nat
    OBVIOUS
  <2> HIDE DEF S
  <2> QED BY <1>1, <1>2, <2>1, Climb
<1> QED BY <1>0, <1>3

\* And so is the concatenation.
LEMMA FlattenType ==
  ASSUME NEW X, NEW s \in Seq(Seq(X))
  PROVE  FlattenSeq(s) \in Seq(X)
<1>1. PICK g : Steps(g, s) /\ FlattenSeq(s) = g[Len(s)]
  BY FlattenSteps DEF Steps
<1>2. Len(s) \in Nat
  BY LenProperties
<1> QED BY <1>1, <1>2, StepsType

\* One more sequence at the end.
LEMMA FlattenAppend ==
  \A X : \A s \in Seq(Seq(X)) : \A e \in Seq(X) :
     FlattenSeq(Append(s, e)) = FlattenSeq(s) \o e
<1> SUFFICES ASSUME NEW X, NEW s, NEW e, s \in Seq(Seq(X)), e \in Seq(X)
             PROVE  FlattenSeq(Append(s, e)) = FlattenSeq(s) \o e
  OBVIOUS
<1>a. s \in Seq(Seq(X)) /\ e \in Seq(X)
  OBVIOUS
<1>0. Len(s) \in Nat
  BY <1>a, LenProperties
<1>b. PICK t : t = Append(s, e)
  OBVIOUS
<1>1. /\ t \in Seq(Seq(X)) /\ Len(t) = Len(s) + 1
      /\ \A i \in 1..Len(s) : t[i] = s[i]
      /\ t[Len(s) + 1] = e
  BY <1>a, <1>b, AppendProperties
<1>2. PICK f : Steps(f, s) /\ FlattenSeq(s) = f[Len(s)]
  BY <1>a, FlattenSteps DEF Steps
<1>3. PICK g : Steps(g, t) /\ FlattenSeq(t) = g[Len(t)]
  BY <1>1, FlattenSteps DEF Steps
<1>4. f[Len(s)] = g[Len(s)]
  <2>3. PICK n \in Nat : n = Len(s)
    BY <1>0
  <2>1. n <= Len(s) /\ n <= Len(t) /\ n \in 0..n
    BY <1>0, <1>1, <2>3
  <2>2. Agree(s, t, n)
    BY <1>1, <2>1, <2>3 DEF Agree
  <2>4. \A m \in 0..n : f[m] = g[m]
    BY <1>a, <1>1, <1>2, <1>3, <2>1, <2>2, StepsSame
  <2> QED BY <2>1, <2>3, <2>4
<1>5. g[Len(t)] = g[Len(s)] \o e
  <2>1. Len(t) \in 1..Len(t) /\ Len(t) - 1 = Len(s)
    BY <1>0, <1>1
  <2> QED BY <1>1, <1>3, <2>1 DEF Steps
<1> QED BY <1>b, <1>2, <1>3, <1>4, <1>5

\* Sequences that hold nothing add nothing.
LEMMA StepsStay ==
  ASSUME NEW X, NEW s \in Seq(Seq(X)), NEW f, Steps(f, s),
         NEW n \in 0..Len(s), Silent(s, n)
  PROVE  \A m \in n..Len(s) : f[m] = f[n]
<1>0. Len(s) \in Nat
  BY LenProperties
<1> DEFINE S == {m \in Nat : n <= m /\ m <= Len(s) => f[m] = f[n]}
<1>1. 0 \in S
  BY <1>0
<1>2. ASSUME NEW m \in S PROVE m + 1 \in S
  <2>1. CASE n <= m /\ m + 1 <= Len(s)
    <3>1. m \in Nat /\ m + 1 \in 1..Len(s) /\ m + 1 \in n+1..Len(s) /\ (m + 1) - 1 = m
          /\ m \in 0..Len(s)
      BY <1>0, <2>1
    <3>2. f[m+1] = f[m] \o << >>
      BY <3>1 DEF Steps, Silent
    <3>3. f[m] \in Seq(X)
      BY <3>1, StepsType
    <3>4. f[m] \o << >> = f[m]
      BY <3>3, ConcatEmptySeq
    <3>5. f[m] = f[n]
      BY <1>0, <2>1, <3>1
    <3> QED BY <3>1, <3>2, <3>4, <3>5
  <2>2. CASE n = m + 1
    BY <1>0, <2>2
  <2>3. m + 1 \in Nat /\ (n <= m + 1 => n <= m \/ n = m + 1)
    BY <1>0
  <2> QED BY <2>1, <2>2, <2>3
<1>3. S = Nat
  <2>1. S \in SUBSET Nat
    OBVIOUS
  <2> HIDE DEF S
  <2> QED BY <1>1, <1>2, <2>1, Climb
<1>4. ASSUME NEW m \in n..Len(s) PROVE f[m] = f[n]
  <2>1. m \in Nat /\ n <= m /\ m <= Len(s)
    BY <1>0
  <2>2. m \in S
    BY <1>3, <2>1
  <2> QED BY <2>1, <2>2
<1> QED BY <1>4

\* Empty sequences make an empty one.
LEMMA FlattenNone ==
  ASSUME NEW X, NEW s \in Seq(Seq(X)), \A i \in 1..Len(s) : s[i] = << >>
  PROVE  FlattenSeq(s) = << >>
<1>1. PICK g : Steps(g, s) /\ FlattenSeq(s) = g[Len(s)]
  BY FlattenSteps DEF Steps
<1>2. Len(s) \in Nat
  BY LenProperties
<1>3. 0 \in 0..Len(s) /\ Len(s) \in 0..Len(s) /\ Silent(s, 0)
  BY <1>2 DEF Silent
<1>4. \A m \in 0..Len(s) : g[m] = g[0]
  BY <1>1, <1>3, StepsStay
<1> QED BY <1>1, <1>3, <1>4 DEF Steps

\* Concatenation is associative.
LEMMA ConcatAssoc ==
  ASSUME NEW X, NEW a \in Seq(X), NEW b \in Seq(X), NEW c \in Seq(X)
  PROVE  (a \o b) \o c = a \o (b \o c)
  BY ConcatAssociative

\* t is s with e at the end of its k-th element, after which all are empty.
GrowsAt(X, s, t, k, e) ==
  /\ s \in Seq(Seq(X)) /\ t \in Seq(Seq(X)) /\ Len(t) = Len(s)
  /\ k \in 1..Len(s) /\ e \in Seq(X) /\ t[k] = s[k] \o e
  /\ \A i \in 1..Len(s) : i # k => t[i] = s[i]
  /\ Silent(s, k)

\* The last sequence that holds something grows at its end.
LEMMA FlattenGrows ==
  ASSUME NEW X, NEW s, NEW t, NEW k, NEW e, GrowsAt(X, s, t, k, e)
  PROVE  FlattenSeq(t) = FlattenSeq(s) \o e
<1>a. s \in Seq(Seq(X)) /\ t \in Seq(Seq(X)) /\ Len(t) = Len(s) /\ e \in Seq(X)
  BY DEF GrowsAt
<1>b. k \in 1..Len(s) /\ t[k] = s[k] \o e
  BY DEF GrowsAt
<1>0. Len(s) \in Nat
  BY <1>a, LenProperties
<1>1. PICK f : Steps(f, s) /\ FlattenSeq(s) = f[Len(s)]
  BY <1>a, FlattenSteps DEF Steps
<1>2. PICK g : Steps(g, t) /\ FlattenSeq(t) = g[Len(t)]
  BY <1>a, FlattenSteps DEF Steps
<1>3. f[k-1] = g[k-1]
  <2>4. PICK n \in Nat : n = k - 1
    BY <1>0, <1>b
  <2>1. n <= Len(s) /\ n <= Len(t) /\ n \in 0..n
    BY <1>0, <1>a, <1>b, <2>4
  <2>2. Agree(s, t, n)
    BY <1>0, <1>b, <2>1, <2>4 DEF GrowsAt, Agree
  <2>5. \A m \in 0..n : f[m] = g[m]
    BY <1>a, <1>1, <1>2, <2>1, <2>2, StepsSame
  <2> QED BY <2>1, <2>4, <2>5
<1>4. f[k] = f[k-1] \o s[k] /\ g[k] = g[k-1] \o t[k]
  BY <1>a, <1>b, <1>1, <1>2 DEF Steps
<1>5. f[k-1] \in Seq(X) /\ s[k] \in Seq(X)
  <2>1. k - 1 \in 0..Len(s)
    BY <1>0, <1>b
  <2>2. \A m \in 0..Len(s) : f[m] \in Seq(X)
    BY <1>a, <1>1, StepsType
  <2> QED BY <1>a, <1>b, <2>1, <2>2, ElementOfSeq
<1>6. g[k] = f[k] \o e
  <2>1. PICK x \in Seq(X), y \in Seq(X) : x = f[k-1] /\ y = s[k]
    BY <1>5
  <2>2. (x \o y) \o e = x \o (y \o e)
    BY <1>a, ConcatAssoc
  <2> QED BY <1>b, <1>3, <1>4, <2>1, <2>2
<1>7. f[Len(s)] = f[k] /\ g[Len(t)] = g[k]
  <2>1. k \in 0..Len(s) /\ Len(s) \in k..Len(s)
    BY <1>0, <1>b
  <2>2. Silent(s, k)
    BY DEF GrowsAt
  <2>3. Silent(t, k)
    <3>1. ASSUME NEW i \in k+1..Len(t) PROVE t[i] = << >>
      <4>1. i \in 1..Len(s) /\ i # k /\ i \in k+1..Len(s)
        BY <1>0, <1>a, <1>b
      <4>2. t[i] = s[i]
        BY <4>1 DEF GrowsAt
      <4> QED BY <2>2, <4>1, <4>2 DEF Silent
    <3> QED BY <3>1 DEF Silent
  <2>4. \A m \in k..Len(s) : f[m] = f[k]
    BY <1>a, <1>1, <2>1, <2>2, StepsStay
  <2>5. \A m \in k..Len(t) : g[m] = g[k]
    BY <1>a, <1>2, <2>1, <2>3, StepsStay
  <2> QED BY <1>a, <2>1, <2>4, <2>5
<1> QED BY <1>1, <1>2, <1>6, <1>7

-----------------------------------------------------------------------------
\* The sets the variables of ChatProjection range over.  Words are the names for
\* states, details, summaries, inputs and notes.
Words == {"", "streaming", "running", "pending", "pending-confirmation", "approved",
          "denied", "completed", "failed", "cancelled", "command", "opaque",
          "requires approval", "error", "past tense"}
RowT == [kind: Kinds, turn: Nat, segment: Nat, tool: Nat, text: Seq(Nat),
         state: Words, detail: Words, summary: Words]
PartT == [kind: {"text", "tool"}, text: Seq(Nat), tool: Nat, status: Words, input: Words]
TurnT == [id: Nat, parts: Seq(PartT), failed: BOOLEAN]
ChatT == [past: Seq(TurnT), active: TurnT]
Types == {"responsePart", "delta", "toolCallStart", "toolCallReady", "toolCallConfirmed",
          "toolCallComplete", "turnStarted", "turnComplete", "turnCancelled", "error", "snapshot"}
ActionT == [type: Types, turn: Nat, tool: Nat, note: Words, text: Seq(Nat)]
EntryT == [from: {"agent", "ask", "reader"}, msg: ActionT, was: ChatT,
           odd: BOOLEAN, late: BOOLEAN]
RequestT == [type: {"subscribe", "turnStarted", "turnCancelled", "toolCallConfirmed"},
             turn: Nat, note: Words]
ViewT == [rows: Seq(RowT), turn: Nat, proj: Nat, segment: Nat]

\* The first of some places.
LEMMA PosProp ==
  ASSUME NEW n \in Nat, NEW I \in SUBSET (1..n), I # {}
  PROVE  Min(I) \in I /\ \A k \in I : Min(I) <= k
<1>1. I \in SUBSET Nat
  OBVIOUS
<1>2. \E m \in I : \A k \in I : m <= k
  BY <1>1, Smallest
<1> QED BY <1>2 DEF Min

\* The first of some places.
FirstOf(i, I) == i \in I /\ \A k \in I : i <= k

\* The rows, the i-th with x at the end of its text.
Grown(rows, i, x) == [rows EXCEPT ![i].text = @ \o x]

\* Where the rows of a segment, of a user's message, of a tool call are.
AgentRows(rows, t, g) == {k \in 1..Len(rows) : /\ rows[k].kind = "agent" /\ rows[k].turn = t
                                               /\ rows[k].segment = g}
MessageRows(rows, t) == {k \in 1..Len(rows) : rows[k].kind = "user" /\ rows[k].turn = t}
CardsOf(rows, tool) == {k \in 1..Len(rows) : IsCard(rows[k]) /\ rows[k].tool = tool}

\* A delta makes a row of its own or lengthens the first row of its segment.
LEMMA DeltaRows ==
  ASSUME NEW X, NEW rows \in Seq(X), NEW t, NEW g, NEW x
  PROVE  \/ AgentRows(rows, t, g) = {} /\ WithDelta(rows, t, g, x) = Append(rows, [Row("agent", t, g, 0) EXCEPT !.text = x])
         \/ \E i \in 1..Len(rows) : FirstOf(i, AgentRows(rows, t, g)) /\ WithDelta(rows, t, g, x) = Grown(rows, i, x)
<1> DEFINE I == AgentRows(rows, t, g)
<1>0. Len(rows) \in Nat /\ I \in SUBSET (1..Len(rows))
  BY LenProperties DEF AgentRows
<1>1. CASE I = {}
  BY <1>1 DEF WithDelta, At, SelectInSeq, AgentRows
<1>2. CASE I # {}
  <2>1. Min(I) \in I /\ \A k \in I : Min(I) <= k
    BY <1>0, <1>2, PosProp
  <2>2. Min(I) # 0 /\ Min(I) \in 1..Len(rows)
    BY <1>0, <2>1
  <2>3. WithDelta(rows, t, g, x) = Grown(rows, Min(I), x)
    BY <1>2, <2>2 DEF Grown, WithDelta, At, SelectInSeq, AgentRows
  <2>4. FirstOf(Min(I), I)
    BY <2>1 DEF FirstOf
  <2> HIDE DEF I
  <2> QED BY <2>2, <2>3, <2>4 DEF I
<1> QED BY <1>1, <1>2

\* A user's message makes a row or replaces the first one of its turn.
LEMMA UserRows ==
  ASSUME NEW X, NEW rows \in Seq(X), NEW t
  PROVE  \/ MessageRows(rows, t) = {} /\ WithUser(rows, t) = Append(rows, Row("user", t, 0, 0))
         \/ \E i \in 1..Len(rows) : FirstOf(i, MessageRows(rows, t)) /\ WithUser(rows, t) = [rows EXCEPT ![i] = Row("user", t, 0, 0)]
<1> DEFINE I == MessageRows(rows, t)
<1>0. Len(rows) \in Nat /\ I \in SUBSET (1..Len(rows))
  BY LenProperties DEF MessageRows
<1>1. CASE I = {}
  BY <1>1 DEF WithUser, Upsert, At, SelectInSeq, MessageRows
<1>2. CASE I # {}
  <2>1. Min(I) \in I /\ \A k \in I : Min(I) <= k
    BY <1>0, <1>2, PosProp
  <2>2. Min(I) # 0 /\ Min(I) \in 1..Len(rows)
    BY <1>0, <2>1
  <2>3. WithUser(rows, t) = [rows EXCEPT ![Min(I)] = Row("user", t, 0, 0)]
    BY <1>2, <2>2 DEF WithUser, Upsert, At, SelectInSeq, MessageRows
  <2>4. FirstOf(Min(I), I)
    BY <2>1 DEF FirstOf
  <2> HIDE DEF I
  <2> QED BY <2>2, <2>3, <2>4 DEF I
<1> QED BY <1>1, <1>2

\* A card makes a row or replaces the first one of its tool call.
LEMMA CardRows ==
  ASSUME NEW X, NEW rows \in Seq(X), NEW c
  PROVE  \/ CardsOf(rows, c.tool) = {} /\ WithCard(rows, c) = Append(rows, c)
         \/ \E i \in 1..Len(rows) : FirstOf(i, CardsOf(rows, c.tool)) /\ WithCard(rows, c) = [rows EXCEPT ![i] = c]
<1> DEFINE I == CardsOf(rows, c.tool)
<1>0. Len(rows) \in Nat /\ I \in SUBSET (1..Len(rows))
  BY LenProperties DEF CardsOf
<1>1. CASE I = {}
  BY <1>1 DEF WithCard, Upsert, At, SelectInSeq, CardsOf
<1>2. CASE I # {}
  <2>1. Min(I) \in I /\ \A k \in I : Min(I) <= k
    BY <1>0, <1>2, PosProp
  <2>2. Min(I) # 0 /\ Min(I) \in 1..Len(rows)
    BY <1>0, <2>1
  <2>3. WithCard(rows, c) = [rows EXCEPT ![Min(I)] = c]
    BY <1>2, <2>2 DEF WithCard, Upsert, At, SelectInSeq, CardsOf
  <2>4. FirstOf(Min(I), I)
    BY <2>1 DEF FirstOf
  <2> HIDE DEF I
  <2> QED BY <2>2, <2>3, <2>4 DEF I
<1> QED BY <1>1, <1>2

\* Rows and cards made from fields of the right kind are rows.
LEMMA RowType ==
  ASSUME NEW kind \in Kinds, NEW t \in Nat, NEW g \in Nat, NEW k \in Nat
  PROVE  Row(kind, t, g, k) \in RowT
<1>1. << >> \in Seq(Nat)
  OBVIOUS
<1> QED  BY <1>1 DEF Row, RowT, Words

\* ... also with a text ...
LEMMA TextRowType ==
  ASSUME NEW t \in Nat, NEW g \in Nat, NEW k \in Nat, NEW x \in Seq(Nat)
  PROVE  [Row("agent", t, g, k) EXCEPT !.text = x] \in RowT
  BY DEF Row, RowT, Kinds, Words

\* ... and as a card.
LEMMA CardType ==
  ASSUME NEW kind \in Kinds, NEW k \in Nat, NEW st \in Words, NEW d \in Words, NEW sm \in Words
  PROVE  Card(kind, k, st, d, sm) \in RowT
<1>1. << >> \in Seq(Nat)
  OBVIOUS
<1> QED  BY <1>1 DEF Card, Row, RowT

-----------------------------------------------------------------------------
\* A function on 1..n is a sequence.
LEMMA FcnSeq ==
  ASSUME NEW X, NEW n \in Nat, NEW f \in [1..n -> X]
  PROVE  f \in Seq(X) /\ Len(f) = n /\ DOMAIN f = 1..n
  OBVIOUS

\* The types of what the host and its reducers make: actions ...
LEMMA ActionType ==
  ASSUME NEW ty \in Types, NEW t \in Nat, NEW k \in Nat, NEW no \in Words
  PROVE  Action(ty, t, k, no) \in ActionT
<1>1. << >> \in Seq(Nat)
  OBVIOUS
<1> QED BY <1>1 DEF Action, ActionT

\* ... a chunk of text ...
LEMMA DeltaType ==
  ASSUME NEW t \in Nat, NEW c \in Nat
  PROVE  [Action("delta", t, 0, "") EXCEPT !.text = <<c + 1>>] \in ActionT
<1>1. <<c + 1>> \in Seq(Nat)
  OBVIOUS
<1> QED BY <1>1 DEF Action, ActionT, Types, Words

\* ... parts ...
LEMMA PartTypes ==
  /\ TextPart \in PartT
  /\ \A k \in Nat : ToolPart(k) \in PartT
<1>1. << >> \in Seq(Nat)
  OBVIOUS
<1> QED BY <1>1 DEF TextPart, ToolPart, PartT, Words

\* ... the turn of a chat at rest.
LEMMA NoTurnType == NoTurn \in TurnT
<1>1. << >> \in Seq(PartT)
  OBVIOUS
<1> QED BY <1>1 DEF NoTurn, TurnT

\* What a change of one part makes of the parts of a turn.
PartsLike(q, p) == DOMAIN q = DOMAIN p /\ \A i \in DOMAIN p : q[i] \in PartT

\* Parts changed one by one are parts.
LEMMA PartsSeq ==
  ASSUME NEW p \in Seq(PartT), NEW q, q = [i \in DOMAIN p |-> q[i]],
         \A i \in DOMAIN p : q[i] \in PartT
  PROVE  q \in Seq(PartT) /\ Len(q) = Len(p)
<1>1. Len(p) \in Nat /\ DOMAIN p = 1..Len(p)
  BY LenProperties
<1>2. q \in [1..Len(p) -> PartT]
  BY <1>1
<1> QED BY <1>1, <1>2, FcnSeq

\* The reducers keep the types: in a turn ...
LEMMA ReducedType ==
  ASSUME NEW t \in TurnT, NEW a \in ActionT
  PROVE  Reduced(t, a) \in TurnT
<1>1. PICK p : p = t.parts
  OBVIOUS
<1>2. p \in Seq(PartT) /\ t = [id |-> t.id, parts |-> p, failed |-> t.failed]
      /\ t.id \in Nat /\ t.failed \in BOOLEAN
  BY <1>1 DEF TurnT
<1>3. Len(p) \in Nat /\ DOMAIN p = 1..Len(p) /\ \A i \in DOMAIN p : p[i] \in PartT
  BY <1>2, LenProperties, ElementOfSeq
<1>4. a.turn \in Nat /\ a.tool \in Nat /\ a.note \in Words /\ a.text \in Seq(Nat)
  BY DEF ActionT
<1>a. ASSUME NEW q \in Seq(PartT) PROVE [t EXCEPT !.parts = q] \in TurnT
  BY DEF TurnT
<1>5. CASE a.type \in {"responsePart", "toolCallStart"}
  <2>1. Append(p, TextPart) \in Seq(PartT) /\ Append(p, ToolPart(a.tool)) \in Seq(PartT)
    BY <1>2, <1>4, PartTypes, AppendProperties
  <2>2. \/ Reduced(t, a) = [t EXCEPT !.parts = Append(p, TextPart)]
        \/ Reduced(t, a) = [t EXCEPT !.parts = Append(p, ToolPart(a.tool))]
    BY <1>1, <1>5 DEF Reduced
  <2> QED BY <1>a, <2>1, <2>2
<1>6. CASE a.type = "delta"
  <2>1. PICK q : q = [i \in DOMAIN p |-> Longer(p[i], a.text)]
    OBVIOUS
  <2>2. ASSUME NEW i \in DOMAIN p PROVE q[i] \in PartT
    <3>1. PICK r : r = p[i]
      OBVIOUS
    <3>2. r \in PartT /\ r.text \in Seq(Nat)
      BY <1>3, <3>1 DEF PartT
    <3>3. r.text \o a.text \in Seq(Nat)
      BY <1>4, <3>2, ConcatProperties
    <3>4. [r EXCEPT !.text = @ \o a.text] \in PartT
      BY <3>2, <3>3 DEF PartT
    <3> QED BY <2>1, <3>1, <3>2, <3>4 DEF Longer
  <2>3. q = [i \in DOMAIN p |-> q[i]]
    BY <2>1
  <2>4. q \in Seq(PartT)
    BY <1>2, <2>2, <2>3, PartsSeq
  <2>5. Reduced(t, a) = [t EXCEPT !.parts = q]
    BY <1>1, <1>6, <2>1 DEF Reduced
  <2> QED BY <1>a, <2>4, <2>5
<1>7. CASE a.type = "toolCallReady"
  <2>1. PICK q : q = [i \in DOMAIN p |->
                IF p[i].tool = a.tool
                THEN [p[i] EXCEPT !.input = a.note, !.status =
                        IF a.tool = Permission THEN "pending-confirmation" ELSE "running"]
                ELSE p[i]]
    OBVIOUS
  <2>2. ASSUME NEW i \in DOMAIN p PROVE q[i] \in PartT
    <3>1. PICK r : r = p[i]
      OBVIOUS
    <3>2. r \in PartT
      BY <1>3, <3>1
    <3>3. [r EXCEPT !.input = a.note, !.status =
                        IF a.tool = Permission THEN "pending-confirmation" ELSE "running"] \in PartT
      BY <1>4, <3>2 DEF PartT, Words
    <3> QED BY <2>1, <3>1, <3>2, <3>3
  <2>3. q = [i \in DOMAIN p |-> q[i]]
    BY <2>1
  <2>4. q \in Seq(PartT)
    BY <1>2, <2>2, <2>3, PartsSeq
  <2>5. Reduced(t, a) = [t EXCEPT !.parts = q]
    BY <1>1, <1>7, <2>1 DEF Reduced, WithTool
  <2> QED BY <1>a, <2>4, <2>5
<1>8. CASE a.type = "toolCallConfirmed"
  <2>1. PICK q : q = [i \in DOMAIN p |->
                IF p[i].tool = a.tool
                THEN [p[i] EXCEPT !.status =
                        IF a.note = "approved" THEN "running" ELSE "cancelled"]
                ELSE p[i]]
    OBVIOUS
  <2>2. ASSUME NEW i \in DOMAIN p PROVE q[i] \in PartT
    <3>1. PICK r : r = p[i]
      OBVIOUS
    <3>2. r \in PartT
      BY <1>3, <3>1
    <3>3. [r EXCEPT !.status =
                        IF a.note = "approved" THEN "running" ELSE "cancelled"] \in PartT
      BY <1>4, <3>2 DEF PartT, Words
    <3> QED BY <2>1, <3>1, <3>2, <3>3
  <2>3. q = [i \in DOMAIN p |-> q[i]]
    BY <2>1
  <2>4. q \in Seq(PartT)
    BY <1>2, <2>2, <2>3, PartsSeq
  <2>5. Reduced(t, a) = [t EXCEPT !.parts = q]
    BY <1>1, <1>8, <2>1 DEF Reduced, WithTool
  <2> QED BY <1>a, <2>4, <2>5
<1>9. CASE a.type = "toolCallComplete"
  <2>1. PICK q : q = [i \in DOMAIN p |->
                IF p[i].tool = a.tool THEN [p[i] EXCEPT !.status = a.note] ELSE p[i]]
    OBVIOUS
  <2>2. ASSUME NEW i \in DOMAIN p PROVE q[i] \in PartT
    <3>1. PICK r : r = p[i]
      OBVIOUS
    <3>2. r \in PartT
      BY <1>3, <3>1
    <3>3. [r EXCEPT !.status = a.note] \in PartT
      BY <1>4, <3>2 DEF PartT
    <3> QED BY <2>1, <3>1, <3>2, <3>3
  <2>3. q = [i \in DOMAIN p |-> q[i]]
    BY <2>1
  <2>4. q \in Seq(PartT)
    BY <1>2, <2>2, <2>3, PartsSeq
  <2>5. Reduced(t, a) = [t EXCEPT !.parts = q]
    BY <1>1, <1>9, <2>1 DEF Reduced, WithTool
  <2> QED BY <1>a, <2>4, <2>5
<1>10. CASE a.type \notin {"responsePart", "toolCallStart", "delta", "toolCallReady",
                           "toolCallConfirmed", "toolCallComplete"}
  BY <1>10 DEF Reduced
<1> QED BY <1>5, <1>6, <1>7, <1>8, <1>9, <1>10

\* ... at its end ...
LEMMA EndedType ==
  ASSUME NEW t \in TurnT, NEW f \in BOOLEAN
  PROVE  Ended(t, f) \in TurnT
<1>1. PICK p : p = t.parts
  OBVIOUS
<1>2. p \in Seq(PartT)
  BY <1>1 DEF TurnT
<1>3. \A i \in DOMAIN p : p[i] \in PartT
  BY <1>2, LenProperties, ElementOfSeq
<1>4. PICK q : q = [i \in DOMAIN p |->
                  IF p[i].kind = "tool" /\ p[i].status \notin Finished
                  THEN [p[i] EXCEPT !.status = "cancelled"] ELSE p[i]]
  OBVIOUS
<1>5. ASSUME NEW i \in DOMAIN p PROVE q[i] \in PartT
  <2>1. PICK r : r = p[i]
    OBVIOUS
  <2>2. r \in PartT
    BY <1>3, <2>1
  <2>3. [r EXCEPT !.status = "cancelled"] \in PartT
    BY <2>2 DEF PartT, Words
  <2> QED BY <1>4, <2>1, <2>2, <2>3
<1>6. q = [i \in DOMAIN p |-> q[i]]
  BY <1>4
<1>7. q \in Seq(PartT)
  BY <1>2, <1>5, <1>6, PartsSeq
<1>8. Ended(t, f) = [t EXCEPT !.failed = f, !.parts = q]
  BY <1>1, <1>4 DEF Ended
<1> QED BY <1>7, <1>8 DEF TurnT

\* ... and in the chat.
LEMMA AppliedType ==
  ASSUME NEW c \in ChatT, NEW a \in ActionT
  PROVE  Applied(c, a) \in ChatT
<1>1. PICK p, t : p = c.past /\ t = c.active
  OBVIOUS
<1>2. p \in Seq(TurnT) /\ t \in TurnT
  BY <1>1 DEF ChatT
<1>3. ASSUME NEW u \in TurnT PROVE [c EXCEPT !.active = u] \in ChatT
  BY DEF ChatT
<1>4. PICK u : u = [NoTurn EXCEPT !.id = a.turn]
  OBVIOUS
<1>5. u \in TurnT
  <2>1. a.turn \in Nat
    BY DEF ActionT
  <2> QED  BY <1>4, <2>1, NoTurnType DEF TurnT
<1>6. Reduced(t, a) \in TurnT
  BY <1>2, ReducedType
<1>7. PICK e : e = Ended(t, a.type = "error")
  OBVIOUS
<1>8. e \in TurnT
  <2>1. (a.type = "error") \in BOOLEAN
    OBVIOUS
  <2>2. PICK f \in BOOLEAN : f = (a.type = "error")
    BY <2>1
  <2> QED BY <1>2, <1>7, <2>2, EndedType
<1>9. Append(p, e) \in Seq(TurnT)
  BY <1>2, <1>8, AppendProperties
<1>10. [past |-> Append(p, e), active |-> NoTurn] \in ChatT
  BY <1>9, NoTurnType DEF ChatT
<1>11. \/ Applied(c, a) = [c EXCEPT !.active = u]
       \/ Applied(c, a) = c
       \/ Applied(c, a) = [past |-> Append(p, e), active |-> NoTurn]
       \/ Applied(c, a) = [c EXCEPT !.active = Reduced(t, a)]
  BY <1>1, <1>4, <1>7 DEF Applied
<1> QED BY <1>3, <1>5, <1>6, <1>10, <1>11

-----------------------------------------------------------------------------
\* The texts of a card are words.
LEMMA DetailType ==
  /\ \A a, b \in Words : OrElse(a, b) \in Words
  /\ \A a, b, c \in Words : toolInvocationDetail(a, b, c) \in Words
  /\ \A a \in Words : toolResultDetail(a) \in Words /\ toolCallSummary(a) \in Words
<1>1. \A a, b \in Words : OrElse(a, b) \in Words
  BY DEF OrElse
<1>2. "requires approval" \in Words /\ "command" \in Words /\ "" \in Words
      /\ "error" \in Words /\ "past tense" \in Words
  BY DEF Words
<1>3. ASSUME NEW a \in Words, NEW b \in Words, NEW c \in Words
      PROVE toolInvocationDetail(a, b, c) \in Words
  BY <1>1, <1>2 DEF toolInvocationDetail
<1> QED BY <1>1, <1>2, <1>3 DEF toolResultDetail, toolCallSummary

\* Sequences of one element and of none.
LEMMA One == ASSUME NEW X, NEW x \in X PROVE <<x>> \in Seq(X) /\ Len(<<x>>) = 1 /\ <<x>>[1] = x
  OBVIOUS

\* The empty sequence.
LEMMA None == ASSUME NEW X PROVE << >> \in Seq(X) /\ Len(<< >>) = 0
  OBVIOUS

\* The types of the rows a snapshot makes: of a tool call ...
LEMMA CardsType ==
  ASSUME NEW p \in PartT
  PROVE  CardsOfPart(p) \in Seq(RowT)
<1>1. p.tool \in Nat /\ p.status \in Words /\ p.input \in Words
  BY DEF PartT
<1>2. "" \in Words /\ "running" \in Words /\ "pending" \in Words
  BY DEF Words
<1>3. "tool" \in Kinds /\ "approval" \in Kinds
  BY DEF Kinds
<1>4. PICK d \in Words : d = toolInvocationDetail(p.input, "running", "")
  BY <1>1, <1>2, DetailType
<1>5. PICK s \in Words : s = toolCallSummary(p.input)
  BY <1>1, DetailType
<1>6. PICK x \in Words : x = (IF p.status \in Finished THEN toolResultDetail(p.status)
                ELSE toolInvocationDetail(p.input, IF p.input = "" THEN "" ELSE "running", ""))
  BY <1>1, <1>2, DetailType
<1>7. Card("approval", p.tool, "pending", d, s) \in RowT
  BY <1>1, <1>2, <1>3, CardType
<1>8. Card("tool", p.tool, p.status, x, s) \in RowT
  BY <1>1, <1>2, <1>3, CardType
<1>9. \/ CardsOfPart(p) = << >>
      \/ CardsOfPart(p) = <<Card("approval", p.tool, "pending", d, s)>>
      \/ CardsOfPart(p) = <<Card("tool", p.tool, p.status, x, s)>>
  BY <1>4, <1>5, <1>6 DEF CardsOfPart
<1> QED BY <1>7, <1>8, <1>9, One, None

\* ... of a part ...
LEMMA RowsOfPartType ==
  ASSUME NEW t \in TurnT, NEW p \in PartT
  PROVE  RowsOfPart(t, p) \in Seq(RowT)
<1>1. t.id \in Nat /\ p.text \in Seq(Nat) /\ 0 \in Nat
  BY DEF TurnT, PartT
<1>2. PICK r : r = [Row("agent", t.id, 0, 0) EXCEPT !.text = p.text]
  OBVIOUS
<1>3. r \in RowT
  BY <1>1, <1>2, TextRowType
<1>4. RowsOfPart(t, p) \in {CardsOfPart(p), << >>, <<r>>}
  BY <1>2 DEF RowsOfPart
<1> QED BY <1>3, <1>4, One, None, CardsType

\* The concatenation of two sequences is one.
LEMMA ConcatType == ASSUME NEW X, NEW a \in Seq(X), NEW b \in Seq(X) PROVE a \o b \in Seq(X)
  BY ConcatProperties

\* The rows of the parts of a turn, part by part.
PartRows(t) == [i \in DOMAIN t.parts |-> RowsOfPart(t, t.parts[i])]

\* It is a sequence of sequences of rows.
LEMMA PartRowsType ==
  ASSUME NEW t \in TurnT
  PROVE  PartRows(t) \in Seq(Seq(RowT)) /\ Len(PartRows(t)) = Len(t.parts)
<1>1. PICK p : p = t.parts
  OBVIOUS
<1>2. p \in Seq(PartT)
  BY <1>1 DEF TurnT
<1>3. Len(p) \in Nat /\ DOMAIN p = 1..Len(p) /\ \A i \in DOMAIN p : p[i] \in PartT
  BY <1>2, LenProperties, ElementOfSeq
<1>4. PICK f : f = [i \in 1..Len(p) |-> RowsOfPart(t, p[i])]
  OBVIOUS
<1>5. f \in [1..Len(p) -> Seq(RowT)]
  BY <1>3, <1>4, RowsOfPartType
<1>6. f = PartRows(t)
  BY <1>1, <1>3, <1>4 DEF PartRows
<1> QED BY <1>1, <1>3, <1>5, <1>6, FcnSeq

\* The row of a turn that failed.
ErrorRows(t) == IF t.failed THEN <<Row("error", 0, 0, 0)>> ELSE << >>

\* It is a sequence of rows ...
LEMMA ErrorRowsType == ASSUME NEW t PROVE ErrorRows(t) \in Seq(RowT)
<1>1. Row("error", 0, 0, 0) \in RowT
  BY RowType DEF Kinds
<1> QED BY <1>1, One, None DEF ErrorRows

\* ... as is that of the user's message.
LEMMA UserRowType == ASSUME NEW t \in TurnT PROVE <<Row("user", t.id, 0, 0)>> \in Seq(RowT)
<1>1. Row("user", t.id, 0, 0) \in RowT
  BY RowType DEF Kinds, TurnT
<1> QED BY <1>1, One

\* What RowsOfTurn is, with its type ...
LEMMA RowsOfTurnType ==
  ASSUME NEW t \in TurnT
  PROVE  /\ RowsOfTurn(t) = <<Row("user", t.id, 0, 0)>> \o FlattenSeq(PartRows(t)) \o ErrorRows(t)
         /\ RowsOfTurn(t) \in Seq(RowT)
<1>1. RowsOfTurn(t) = <<Row("user", t.id, 0, 0)>> \o FlattenSeq(PartRows(t)) \o ErrorRows(t)
  BY DEF RowsOfTurn, PartRows, ErrorRows
<1>2. PICK a, b, c : a = <<Row("user", t.id, 0, 0)>> /\ b = FlattenSeq(PartRows(t))
                     /\ c = ErrorRows(t)
  OBVIOUS
<1>3. a \in Seq(RowT) /\ b \in Seq(RowT) /\ c \in Seq(RowT)
  BY <1>2, UserRowType, PartRowsType, FlattenType, ErrorRowsType
<1>4. a \o b \in Seq(RowT)
  BY <1>3, ConcatType
<1>5. (a \o b) \o c \in Seq(RowT)
  BY <1>3, <1>4, ConcatType
<1> QED BY <1>1, <1>2, <1>5

\* What RowsOf concatenates.
TurnRows(turns) == [i \in DOMAIN turns |-> RowsOfTurn(turns[i])]

\* ... and what RowsOf is.
LEMMA RowsOfType ==
  ASSUME NEW turns \in Seq(TurnT)
  PROVE  /\ TurnRows(turns) \in Seq(Seq(RowT)) /\ Len(TurnRows(turns)) = Len(turns)
         /\ RowsOf(turns) = FlattenSeq(TurnRows(turns))
         /\ RowsOf(turns) \in Seq(RowT)
<1>1. Len(turns) \in Nat /\ DOMAIN turns = 1..Len(turns)
      /\ \A i \in DOMAIN turns : turns[i] \in TurnT
  BY LenProperties, ElementOfSeq
<1>2. PICK f : f = [i \in 1..Len(turns) |-> RowsOfTurn(turns[i])]
  OBVIOUS
<1>3. f \in [1..Len(turns) -> Seq(RowT)]
  BY <1>1, <1>2, RowsOfTurnType
<1>4. f = TurnRows(turns)
  BY <1>1, <1>2 DEF TurnRows
<1>5. TurnRows(turns) \in Seq(Seq(RowT)) /\ Len(TurnRows(turns)) = Len(turns)
  BY <1>1, <1>3, <1>4, FcnSeq
<1>6. RowsOf(turns) = FlattenSeq(TurnRows(turns))
  BY DEF RowsOf, TurnRows
<1> QED BY <1>5, <1>6, FlattenType

-----------------------------------------------------------------------------

\* The types of the rows after a message: text ...
LEMMA DeltaRowsType ==
  ASSUME NEW rows \in Seq(RowT), NEW t \in Nat, NEW g \in Nat, NEW x \in Seq(Nat)
  PROVE  WithDelta(rows, t, g, x) \in Seq(RowT)
<1>1. PICK n \in Nat : Len(rows) = n
  BY LenProperties
<1>2. PICK r : r = [Row("agent", t, g, 0) EXCEPT !.text = x]
  OBVIOUS
<1>3. r \in RowT
  BY <1>2, TextRowType
<1>4. Append(rows, r) \in Seq(RowT)
  BY <1>3, AppendProperties
<1>5. ASSUME NEW i \in 1..n PROVE Grown(rows, i, x) \in Seq(RowT)
  <2>1. PICK q : q = rows[i]
    OBVIOUS
  <2>2. q \in RowT /\ q.text \in Seq(Nat)
    <3>1. rows[i] \in RowT
      BY <1>1, ElementOfSeq
    <3> QED BY <2>1, <3>1 DEF RowT
  <2>3. q.text \o x \in Seq(Nat)
    BY <2>2, ConcatType
  <2>4. PICK e : e = [q EXCEPT !.text = q.text \o x]
    OBVIOUS
  <2>5. e \in RowT
    BY <2>2, <2>3, <2>4 DEF RowT
  <2>6. [rows EXCEPT ![i] = e] \in Seq(RowT)
    BY <1>1, <2>5, ExceptSeq
  <2>7. Grown(rows, i, x) = [rows EXCEPT ![i] = e]
    BY <2>1, <2>4 DEF Grown
  <2> QED BY <2>6, <2>7
<1>6. \/ WithDelta(rows, t, g, x) = Append(rows, r)
      \/ \E i \in 1..n : WithDelta(rows, t, g, x) = Grown(rows, i, x)
  BY <1>1, <1>2, DeltaRows
<1> QED BY <1>4, <1>5, <1>6

\* ... a user's message ...
LEMMA UserRowsType ==
  ASSUME NEW rows \in Seq(RowT), NEW t \in Nat
  PROVE  WithUser(rows, t) \in Seq(RowT)
<1>1. PICK n \in Nat : Len(rows) = n
  BY LenProperties
<1>2. PICK r \in RowT : r = Row("user", t, 0, 0)
  BY RowType DEF Kinds
<1>3. Append(rows, r) \in Seq(RowT)
  BY <1>2, AppendProperties
<1>4. ASSUME NEW i \in 1..n PROVE [rows EXCEPT ![i] = r] \in Seq(RowT)
  BY <1>1, <1>2, ExceptSeq
<1>5. \/ WithUser(rows, t) = Append(rows, r)
      \/ \E i \in 1..n : WithUser(rows, t) = [rows EXCEPT ![i] = r]
  BY <1>1, <1>2, UserRows
<1> QED BY <1>3, <1>4, <1>5

\* ... a card.
LEMMA CardRowsType ==
  ASSUME NEW rows \in Seq(RowT), NEW r \in RowT
  PROVE  WithCard(rows, r) \in Seq(RowT)
<1>1. PICK n \in Nat : Len(rows) = n
  BY LenProperties
<1>3. Append(rows, r) \in Seq(RowT)
  BY AppendProperties
<1>4. ASSUME NEW i \in 1..n PROVE [rows EXCEPT ![i] = r] \in Seq(RowT)
  BY <1>1, ExceptSeq
<1>5. \/ WithCard(rows, r) = Append(rows, r)
      \/ \E i \in 1..n : WithCard(rows, r) = [rows EXCEPT ![i] = r]
  BY <1>1, CardRows
<1> QED BY <1>3, <1>4, <1>5

-----------------------------------------------------------------------------
\* The card a tool call has before its first message.
NoCard(tool) == Card("tool", tool, "", "", "")

\* The card after a message is one of the message's tool call.
LEMMA CardAfterTool ==
  ASSUME NEW p, NEW a
  PROVE  CardAfter(p, a).tool = a.tool /\ CardAfter(p, a).turn = 0
         /\ CardAfter(p, a).segment = 0 /\ CardAfter(p, a).text = << >>
         /\ IsCard(CardAfter(p, a))
  BY DEF CardAfter, Card, Row, IsCard

\* A card that arrives stands where the first one of its call stands, or at the end.
LEMMA ToolShape ==
  ASSUME NEW v \in ViewT, NEW a \in ActionT
  PROVE  LET w == ToolArrives(v, a) IN
         /\ w.turn = v.turn /\ w.proj = v.proj
         /\ w.segment = IF a.type = "toolCallStart" THEN v.segment + 1 ELSE v.segment
         /\ w = [rows |-> w.rows, turn |-> w.turn, proj |-> w.proj, segment |-> w.segment]
         /\ \/ /\ CardsOf(v.rows, a.tool) = {}
               /\ w.rows = Append(v.rows, CardAfter(NoCard(a.tool), a))
            \/ \E i \in 1..Len(v.rows) :
                  /\ FirstOf(i, CardsOf(v.rows, a.tool))
                  /\ w.rows = [v.rows EXCEPT ![i] = CardAfter(v.rows[i], a)]
<1>1. PICK rows \in Seq(RowT) : rows = v.rows
  BY DEF ViewT
<1>2. PICK w : w = ToolArrives(v, a)
  OBVIOUS
<1> DEFINE I == CardsOf(rows, a.tool)
<1>0. Len(rows) \in Nat /\ I \in SUBSET (1..Len(rows))
  BY LenProperties DEF CardsOf
<1>3. PICK p : /\ p = IF I = {} THEN NoCard(a.tool) ELSE rows[Min(I)]
               /\ w = [v EXCEPT !.segment = IF a.type = "toolCallStart" THEN @ + 1 ELSE @,
                                !.rows = WithCard(@, CardAfter(p, a))]
  <2>1. CASE I = {}
    BY <1>1, <1>2, <2>1 DEF ToolArrives, At, SelectInSeq, CardsOf, NoCard
  <2>2. CASE I # {}
    <3>1. Min(I) \in I
      BY <1>0, <2>2, PosProp
    <3>2. Min(I) # 0
      BY <1>0, <3>1
    <3> QED BY <1>1, <1>2, <2>2, <3>2 DEF ToolArrives, At, SelectInSeq, CardsOf
  <2> QED BY <2>1, <2>2
<1>4. /\ w.turn = v.turn /\ w.proj = v.proj /\ w.rows = WithCard(rows, CardAfter(p, a))
      /\ w.segment = IF a.type = "toolCallStart" THEN v.segment + 1 ELSE v.segment
      /\ w = [rows |-> w.rows, turn |-> w.turn, proj |-> w.proj, segment |-> w.segment]
  BY <1>1, <1>3 DEF ViewT
<1>5. PICK c : c = CardAfter(p, a) /\ c.tool = a.tool
  BY CardAfterTool
<1>6. \/ I = {} /\ WithCard(rows, c) = Append(rows, c)
      \/ \E i \in 1..Len(rows) : FirstOf(i, I) /\ WithCard(rows, c) = [rows EXCEPT ![i] = c]
  <2>1. I = CardsOf(rows, c.tool)
    BY <1>5
  <2> HIDE DEF I
  <2> QED BY <2>1, CardRows
<1>7. CASE I = {} /\ WithCard(rows, c) = Append(rows, c)
  BY <1>1, <1>2, <1>3, <1>4, <1>5, <1>7
<1>8. CASE \E i \in 1..Len(rows) : FirstOf(i, I) /\ WithCard(rows, c) = [rows EXCEPT ![i] = c]
  <2>1. PICK i \in 1..Len(rows) : FirstOf(i, I) /\ WithCard(rows, c) = [rows EXCEPT ![i] = c]
    BY <1>8
  <2>2. I # {}
    BY <2>1 DEF FirstOf
  <2>3. Min(I) = i
    <3>1. Min(I) \in I /\ \A k \in I : Min(I) <= k
      BY <1>0, <2>2, PosProp
    <3>2. i \in I /\ i <= Min(I) /\ Min(I) <= i
      BY <2>1, <3>1 DEF FirstOf
    <3>3. i \in Nat /\ Min(I) \in Nat
      BY <1>0, <3>1
    <3> QED BY <3>2, <3>3
  <2>4. p = rows[i]
    BY <1>3, <2>2, <2>3
  <2>5. FirstOf(i, CardsOf(rows, a.tool)) /\ w.rows = [rows EXCEPT ![i] = CardAfter(rows[i], a)]
    BY <1>4, <1>5, <2>1, <2>4
  <2> HIDE DEF I
  <2> QED BY <1>1, <1>2, <1>4, <2>1, <2>5
<1> QED BY <1>6, <1>7, <1>8

\* The card after a message is a row.
LEMMA CardAfterType ==
  ASSUME NEW p, p.detail \in Words, p.summary \in Words, NEW a \in ActionT
  PROVE  CardAfter(p, a) \in RowT
<1>1. a.tool \in Nat /\ a.note \in Words
  BY DEF ActionT
<1>2. "" \in Words /\ "running" \in Words /\ "pending" \in Words /\ "streaming" \in Words
  BY DEF Words
<1>3. "tool" \in Kinds /\ "approval" \in Kinds
  BY DEF Kinds
<1>4. PICK d \in Words : d = toolInvocationDetail(a.note, "running", p.detail)
  BY <1>1, <1>2, DetailType
<1>5. PICK s \in Words : s = OrElse(toolCallSummary(a.note), p.summary)
  BY <1>1, DetailType
<1>6. PICK x \in Words : x = OrElse(toolResultDetail(a.note), p.detail)
  BY <1>1, <1>2, DetailType
<1>7. /\ Card("approval", a.tool, "pending", d, s) \in RowT
      /\ Card("tool", a.tool, "running", d, s) \in RowT
      /\ Card("tool", a.tool, "streaming", "", "") \in RowT
      /\ Card("approval", a.tool, a.note, p.detail, p.summary) \in RowT
      /\ Card("tool", a.tool, a.note, x, p.summary) \in RowT
  BY <1>1, <1>2, <1>3, CardType
<1>8. CardAfter(p, a) \in {Card("approval", a.tool, "pending", d, s),
      Card("tool", a.tool, "running", d, s), Card("tool", a.tool, "streaming", "", ""),
      Card("approval", a.tool, a.note, p.detail, p.summary),
      Card("tool", a.tool, a.note, x, p.summary)}
  BY <1>4, <1>5, <1>6 DEF CardAfter
<1> QED BY <1>7, <1>8

\* The types of the view after each kind of message.
LEMMA ToolArrivesType ==
  ASSUME NEW v \in ViewT, NEW a \in ActionT
  PROVE  ToolArrives(v, a) \in ViewT
<1>1. PICK rows \in Seq(RowT) : rows = v.rows
  BY DEF ViewT
<1>2. PICK w : w = ToolArrives(v, a)
  OBVIOUS
<1>3. /\ w.turn = v.turn /\ w.proj = v.proj
      /\ w.segment = IF a.type = "toolCallStart" THEN v.segment + 1 ELSE v.segment
      /\ w = [rows |-> w.rows, turn |-> w.turn, proj |-> w.proj, segment |-> w.segment]
      /\ \/ w.rows = Append(rows, CardAfter(NoCard(a.tool), a))
         \/ \E i \in 1..Len(rows) : w.rows = [rows EXCEPT ![i] = CardAfter(rows[i], a)]
  BY <1>1, <1>2, ToolShape
<1>4. ASSUME NEW i \in 1..Len(rows) PROVE [rows EXCEPT ![i] = CardAfter(rows[i], a)] \in Seq(RowT)
  <2>1. rows[i].detail \in Words /\ rows[i].summary \in Words
    <3>1. rows[i] \in RowT
      BY ElementOfSeq
    <3> QED BY <3>1 DEF RowT
  <2>2. CardAfter(rows[i], a) \in RowT
    BY <2>1, CardAfterType
  <2> QED BY <2>2, ExceptSeq
<1>5. Append(rows, CardAfter(NoCard(a.tool), a)) \in Seq(RowT)
  <2>1. NoCard(a.tool).detail \in Words /\ NoCard(a.tool).summary \in Words
    BY DEF NoCard, Card, Row, Words
  <2>2. CardAfter(NoCard(a.tool), a) \in RowT
    BY <2>1, CardAfterType
  <2> QED BY <2>2, AppendProperties
<1>6. w.rows \in Seq(RowT)
  BY <1>3, <1>4, <1>5
<1>7. w.turn \in Nat /\ w.proj \in Nat /\ w.segment \in Nat
  <2>1. v.turn \in Nat /\ v.proj \in Nat /\ v.segment \in Nat
    BY DEF ViewT
  <2>2. w.turn = v.turn /\ w.proj = v.proj /\ w.segment \in {v.segment, v.segment + 1}
    BY <1>3
  <2> QED BY <2>1, <2>2
<1>8. w = [rows |-> w.rows, turn |-> w.turn, proj |-> w.proj, segment |-> w.segment]
  BY <1>3
<1> QED BY <1>2, <1>6, <1>7, <1>8 DEF ViewT

\* ... a snapshot ...
LEMMA SnapshotType ==
  ASSUME NEW v \in ViewT, NEW c \in ChatT
  PROVE  SnapshotArrives(v, c) \in ViewT
<1>1. c.past \in Seq(TurnT) /\ c.active \in TurnT
  BY DEF ChatT
<1>2. Append(c.past, c.active) \in Seq(TurnT)
  BY <1>1, AppendProperties
<1>3. PICK r, q : r = RowsOf(c.past) /\ q = RowsOf(Append(c.past, c.active))
  OBVIOUS
<1>4. r \in Seq(RowT) /\ q \in Seq(RowT)
  BY <1>1, <1>2, <1>3, RowsOfType
<1>5. c.active.id \in Nat
  BY <1>1 DEF TurnT
<1> QED BY <1>3, <1>4, <1>5 DEF SnapshotArrives, TurnEnds, ViewT

\* ... a turn ...
LEMMA TurnStartedType ==
  ASSUME NEW v \in ViewT, NEW a \in ActionT
  PROVE  TurnStarted(v, a) \in ViewT
<1>1. PICK r : r = WithUser(v.rows, a.turn)
  OBVIOUS
<1>2. r \in Seq(RowT) /\ a.turn \in Nat
  BY <1>1, UserRowsType DEF ViewT, ActionT
<1> QED BY <1>1, <1>2 DEF TurnStarted, ViewT

\* ... an error ...
LEMMA ErrorArrivesType ==
  ASSUME NEW v \in ViewT
  PROVE  ErrorArrives(v) \in ViewT
<1>1. PICK r : r = Row("error", 0, 0, 0)
  OBVIOUS
<1>2. r \in RowT
  BY <1>1, RowType DEF Kinds
<1>3. Append(v.rows, r) \in Seq(RowT)
  BY <1>2, AppendProperties DEF ViewT
<1> QED BY <1>1, <1>3 DEF ErrorArrives, ViewT

\* ... text ...
LEMMA TextArrivesType ==
  ASSUME NEW v \in ViewT, NEW a \in ActionT
  PROVE  TextArrives(v, a) \in ViewT
<1>1. PICK r : r = WithDelta(v.rows, ScopedTurn(v), ScopedSegment(v), a.text)
  OBVIOUS
<1>2. ScopedTurn(v) \in Nat /\ ScopedSegment(v) \in Nat /\ a.text \in Seq(Nat) /\ v.rows \in Seq(RowT)
  BY DEF ScopedTurn, ScopedSegment, ViewT, ActionT
<1>3. r \in Seq(RowT)
  BY <1>1, <1>2, DeltaRowsType
<1> QED BY <1>1, <1>3 DEF TextArrives, ViewT

\* ... whatever arrives.
LEMMA ProjectedType ==
  ASSUME NEW v \in ViewT, NEW m \in EntryT
  PROVE  Projected(v, m) \in ViewT
<1>1. m.msg \in ActionT /\ m.was \in ChatT
  BY DEF EntryT
<1>2. TurnEnds(v) \in ViewT
  BY DEF TurnEnds, ViewT
<1>3. /\ SnapshotArrives(v, m.was) \in ViewT /\ TurnStarted(v, m.msg) \in ViewT
      /\ TextArrives(v, m.msg) \in ViewT /\ ErrorArrives(v) \in ViewT
      /\ ToolArrives(v, m.msg) \in ViewT
  BY <1>1, SnapshotType, TurnStartedType, TextArrivesType, ErrorArrivesType, ToolArrivesType
<1>4. Projected(v, m) \in {SnapshotArrives(v, m.was), TurnStarted(v, m.msg),
          TextArrives(v, m.msg), TurnEnds(v), ErrorArrives(v), ToolArrives(v, m.msg)}
  BY DEF Projected
<1> QED BY <1>2, <1>3, <1>4

-----------------------------------------------------------------------------
\* The types of the variables.
AgentT == [step: {"idle", "event", "delta", "toolCallReady"}, turn: Nat, tool: Nat]
AskT == [step: {"idle", "toolCallStart", "toolCallReady", "waiting"}, turn: Nat, tool: Nat]

\* The numbers given so far.
CountT == [turn: Nat, chunk: Nat, tool: Nat]

\* The types of the host.
HostT == chat \in ChatT /\ count \in CountT
SdkT == agent \in AgentT /\ ask \in AskT /\ registered \in BOOLEAN
NetT == subscribed \in BOOLEAN /\ flight \in Seq(EntryT) /\ uplink \in Seq(RequestT)
WindowT == /\ link \in [up: BOOLEAN, known: BOOLEAN, awaited: Int]
           /\ used \in [opens: Nat, upsets: Nat]
           /\ view \in ViewT /\ blurred \in BOOLEAN /\ restored \in Nat

\* Every variable has its type.
TypesRight == HostT /\ SdkT /\ NetT /\ WindowT

\* What ChatAssumption says of each constant.
LEMMA ChatConstants ==
  /\ MaxStarts \in Nat /\ MaxChunks \in Nat /\ MaxTools \in Nat /\ MaxOpens \in Nat
  /\ MaxFlight \in Nat /\ MaxUpsets \in Nat /\ MaxTotal \in Nat
  /\ Inputs \subseteq Words /\ Outcomes \subseteq Words
<1>1. /\ MaxStarts \in Nat /\ MaxChunks \in Nat /\ MaxTools \in Nat /\ MaxOpens \in Nat
      /\ MaxFlight \in Nat /\ MaxUpsets \in Nat /\ MaxTotal \in Nat
  BY ChatAssumption
<1>2. Inputs \subseteq Words /\ Outcomes \subseteq Words
  BY ChatAssumption DEF Words
<1> QED BY <1>1, <1>2

\* What a message sent becomes.
Entry(e, a) == [from |-> e, msg |-> a, was |-> chat,
                odd |-> a.type # "snapshot" /\ Odd(a), late |-> FALSE]

\* What Send does.
LEMMA SendIs ==
  ASSUME NEW e, NEW a, Send(e, a)
  PROVE  flight' = Append(flight, Entry(e, a))
  BY DEF Send, Entry

\* The entry has its type ...
LEMMA EntryType ==
  ASSUME HostT, NEW e \in {"agent", "ask", "reader"}, NEW a \in ActionT
  PROVE  Entry(e, a) \in EntryT
<1>1. chat \in ChatT
  BY DEF HostT
<1>2. (a.type # "snapshot" /\ Odd(a)) \in BOOLEAN
  BY DEF Odd
<1> QED BY <1>1, <1>2 DEF Entry, EntryT

\* ... so what is on its way keeps it ...
LEMMA SendType ==
  ASSUME HostT, NetT, NEW e \in {"agent", "ask", "reader"}, NEW a \in ActionT, Send(e, a)
  PROVE  flight' \in Seq(EntryT)
<1>1. PICK x \in EntryT : x = Entry(e, a)
  BY EntryType
<1>2. flight \in Seq(EntryT)
  BY DEF NetT
<1>3. Append(flight, x) \in Seq(EntryT)
  BY <1>2, AppendProperties
<1> QED BY <1>1, <1>3, SendIs

\* ... and so does the chat.
LEMMA EmitType ==
  ASSUME HostT, NetT, NEW e \in {"agent", "ask", "reader"}, NEW a \in ActionT, Emit(e, a)
  PROVE  flight' \in Seq(EntryT) /\ chat' \in ChatT
<1>1. chat' \in ChatT
  BY AppliedType DEF Emit, HostT
<1>2. CASE subscribed
  BY <1>1, <1>2, SendType DEF Emit
<1>3. CASE ~subscribed
  BY <1>1, <1>3 DEF Emit, NetT
<1> QED BY <1>2, <1>3

\* A message emitted, and the numbers and goroutines after it.
LEMMA HostTypes ==
  ASSUME TypesRight, NEW e \in {"agent", "ask", "reader"}, NEW a \in ActionT, Emit(e, a),
         count' \in CountT, SdkT',
         subscribed' = subscribed, uplink' \in Seq(RequestT), UNCHANGED clientVars
  PROVE  TypesRight'
<1>1. HostT'
  BY EmitType DEF HostT, TypesRight
<1>2. NetT'
  BY EmitType DEF NetT, TypesRight
<1>3. WindowT'
  BY DEF TypesRight, WindowT, clientVars
<1> QED BY <1>1, <1>2, <1>3 DEF TypesRight

\* The types hold in the beginning.
LEMMA InitTypes == InitChat => TypesRight
<1> SUFFICES ASSUME InitChat PROVE TypesRight
  OBVIOUS
<1>1. << >> \in Seq(TurnT) /\ << >> \in Seq(EntryT) /\ << >> \in Seq(RequestT) /\ << >> \in Seq(RowT)
  BY None
<1>2. HostT
  BY <1>1, NoTurnType DEF InitChat, HostT, ChatT, CountT
<1>3. SdkT
  BY DEF InitChat, SdkT, AgentIdle, AskIdle, AgentT, AskT
<1>4. NetT
  BY <1>1 DEF InitChat, NetT
<1>5. WindowT
  <2>1. view \in ViewT
    BY <1>1 DEF InitChat, ViewT
  <2>2. link \in [up: BOOLEAN, known: BOOLEAN, awaited: Int] /\ used \in [opens: Nat, upsets: Nat]
    BY DEF InitChat
  <2>3. blurred \in BOOLEAN /\ restored \in Nat
    BY DEF InitChat
  <2> QED BY <2>1, <2>2, <2>3 DEF WindowT
<1> QED BY <1>2, <1>3, <1>4, <1>5 DEF TypesRight

\* The types of the parts of the state.
LEMMA ActiveType ==
  ASSUME HostT
  PROVE  /\ active \in TurnT /\ active.id \in Nat /\ active.parts \in Seq(PartT)
         /\ past \in Seq(TurnT)
         /\ count.turn \in Nat /\ count.chunk \in Nat /\ count.tool \in Nat
<1>1. active \in TurnT /\ past \in Seq(TurnT)
  BY DEF HostT, ChatT, active, past
<1>2. count.turn \in Nat /\ count.chunk \in Nat /\ count.tool \in Nat
  BY DEF HostT, CountT
<1> QED BY <1>1, <1>2 DEF TurnT

\* Counting keeps the type of the counters.
LEMMA CountSteps ==
  ASSUME HostT
  PROVE  /\ count.turn + 1 \in Nat /\ count.chunk + 1 \in Nat /\ count.tool + 1 \in Nat
         /\ [count EXCEPT !.turn = @ + 1] \in CountT
         /\ [count EXCEPT !.turn = count.turn + 1] \in CountT
         /\ [count EXCEPT !.chunk = @ + 1] \in CountT
         /\ [count EXCEPT !.tool = @ + 1] \in CountT
<1>1. count \in CountT
  BY DEF HostT, CountT
<1>2. PICK i, j, k \in Nat : i = count.turn /\ j = count.chunk /\ k = count.tool
  BY <1>1 DEF CountT
<1>3. i + 1 \in Nat /\ j + 1 \in Nat /\ k + 1 \in Nat
  BY <1>2
<1>4. PICK ii, jj, kk \in Nat : ii = i + 1 /\ jj = j + 1 /\ kk = k + 1
  BY <1>3
<1>5. [count EXCEPT !.turn = ii] \in CountT /\ [count EXCEPT !.chunk = jj] \in CountT
      /\ [count EXCEPT !.tool = kk] \in CountT
  BY <1>1 DEF CountT
<1> QED BY <1>2, <1>3, <1>4, <1>5

\* The types of what the two goroutines know.
LEMMA SdkType ==
  ASSUME HostT, SdkT
  PROVE  /\ EventTurn \in Nat /\ Permission \in Nat
         /\ agent.turn \in Nat /\ agent.tool \in Nat /\ ask.turn \in Nat
         /\ AgentIdle \in AgentT /\ AskIdle \in AskT
         /\ AgentWhenTurnEnds \subseteq AgentT
<1>1. active.id \in Nat
  BY ActiveType
<1>2. /\ agent.turn \in Nat /\ agent.tool \in Nat /\ ask.turn \in Nat /\ ask.tool \in Nat
  BY DEF SdkT, AgentT, AskT
<1>3. AgentIdle \in AgentT /\ AskIdle \in AskT
  BY DEF AgentIdle, AskIdle, AgentT, AskT
<1>4. [AgentIdle EXCEPT !.step = "event", !.turn = active.id] \in AgentT
  BY <1>1 DEF AgentIdle, AgentT
<1>5. AgentWhenTurnEnds \subseteq AgentT
  BY <1>4 DEF AgentWhenTurnEnds, SdkT
<1> QED BY <1>1, <1>2, <1>3, <1>5 DEF EventTurn, Permission

\* The steps of the agent's goroutine keep the types.
LEMMA AgentTypes ==
  ASSUME TypesRight,
         AgentText \/ AgentStartsTool \/ AgentToolReady \/ AgentToolComplete \/ AgentEnds
  PROVE  TypesRight'
<1>0. HostT /\ SdkT /\ NetT
  BY DEF TypesRight
<1>1. /\ EventTurn \in Nat /\ agent.turn \in Nat /\ agent.tool \in Nat /\ AgentIdle \in AgentT
      /\ count.turn \in Nat /\ count.chunk \in Nat /\ count.tool \in Nat
      /\ "" \in Words /\ 0 \in Nat
  BY <1>0, SdkType, ActiveType DEF Words
<1>2. uplink \in Seq(RequestT) /\ count \in CountT
      /\ ask \in AskT /\ registered \in BOOLEAN
  BY <1>0 DEF NetT, HostT, SdkT
<1>3. CASE AgentText
  <2>1. CASE agent.step # "delta" /\ ~HasText(active)
    <3>1. PICK a \in ActionT : a = Action("responsePart", EventTurn, 0, "")
      BY <1>1, ActionType DEF Types
    <3>2. [AgentIdle EXCEPT !.step = "delta", !.turn = EventTurn] \in AgentT
      BY <1>1 DEF AgentT
    <3>3. SdkT' /\ count' = count /\ uplink' = uplink /\ subscribed' = subscribed
          /\ UNCHANGED clientVars /\ Emit("agent", a)
      BY <1>2, <1>3, <2>1, <3>1, <3>2 DEF AgentText, SdkT
    <3> QED BY <1>2, <3>3, HostTypes
  <2>2. CASE ~(agent.step # "delta" /\ ~HasText(active))
    <3>1. PICK a \in ActionT : a = [Action("delta", EventTurn, 0, "") EXCEPT
                                !.text = <<count.chunk + 1>>]
      BY <1>1, DeltaType
    <3>2. SdkT' /\ uplink' = uplink /\ subscribed' = subscribed
          /\ UNCHANGED clientVars /\ Emit("agent", a) /\ count' = [count EXCEPT !.chunk = @ + 1]
      BY <1>1, <1>2, <1>3, <2>2, <3>1 DEF AgentText, SdkT
    <3>3. count' \in CountT
      BY <1>0, <3>2, CountSteps
    <3> QED BY <1>2, <3>2, <3>3, HostTypes
  <2> QED BY <2>1, <2>2
<1>4. CASE AgentStartsTool
  <2>0. PICK k \in Nat : k = count.tool + 1
    BY <1>0, CountSteps
  <2>1. PICK a \in ActionT : a = Action("toolCallStart", EventTurn, k, "")
    BY <1>1, ActionType DEF Types
  <2>2. [step |-> "toolCallReady", turn |-> EventTurn, tool |-> k] \in AgentT
    BY <1>1 DEF AgentT
  <2>3. SdkT' /\ uplink' = uplink /\ subscribed' = subscribed
        /\ UNCHANGED clientVars /\ Emit("agent", a) /\ count' = [count EXCEPT !.tool = @ + 1]
    BY <1>1, <1>2, <1>4, <2>0, <2>1, <2>2 DEF AgentStartsTool, SdkT
  <2>4. count' \in CountT
    BY <1>0, <2>3, CountSteps
  <2> QED BY <1>2, <2>3, <2>4, HostTypes
<1>5. CASE AgentToolReady
  <2>1. PICK input \in Inputs : Emit("agent", Action("toolCallReady", agent.turn, agent.tool, input))
    BY <1>5 DEF AgentToolReady
  <2>2. PICK a \in ActionT : a = Action("toolCallReady", agent.turn, agent.tool, input)
    BY <1>1, ChatConstants, ActionType DEF Types
  <2>3. SdkT' /\ uplink' = uplink /\ subscribed' = subscribed
        /\ UNCHANGED clientVars /\ Emit("agent", a) /\ count' = count
    BY <1>1, <1>2, <1>5, <2>1, <2>2 DEF AgentToolReady, SdkT
  <2> QED BY <1>2, <2>3, HostTypes
<1>6. CASE AgentToolComplete
  <2>1. PICK p \in ToSet(active.parts), status \in Outcomes :
          Emit("agent", Action("toolCallComplete", EventTurn, p.tool, status))
    BY <1>6 DEF AgentToolComplete
  <2>2. p.tool \in Nat
    <3>1. active.parts \in Seq(PartT)
      BY <1>0, ActiveType
    <3>2. p \in PartT
      BY <2>1, <3>1, LenProperties, ElementOfSeq DEF ToSet
    <3> QED BY <3>2 DEF PartT
  <2>3. PICK a \in ActionT : a = Action("toolCallComplete", EventTurn, p.tool, status)
    BY <1>1, <2>2, ChatConstants, ActionType DEF Types
  <2>4. SdkT' /\ uplink' = uplink /\ subscribed' = subscribed
        /\ UNCHANGED clientVars /\ Emit("agent", a) /\ count' = count
    BY <1>1, <1>2, <1>6, <2>1, <2>3 DEF AgentToolComplete, SdkT
  <2> QED BY <1>2, <2>4, HostTypes
<1>7. CASE AgentEnds
  <2>1. PICK type \in {"turnComplete", "error"} : Emit("agent", Action(type, EventTurn, 0, ""))
    BY <1>7 DEF AgentEnds
  <2>2. PICK a \in ActionT : a = Action(type, EventTurn, 0, "")
    BY <1>1, ActionType DEF Types
  <2>3. SdkT' /\ uplink' = uplink /\ subscribed' = subscribed
        /\ UNCHANGED clientVars /\ Emit("agent", a) /\ count' = count
    BY <1>1, <1>2, <1>7, <2>1, <2>2 DEF AgentEnds, SdkT
  <2> QED BY <1>2, <2>3, HostTypes
<1> QED BY <1>3, <1>4, <1>5, <1>6, <1>7

-----------------------------------------------------------------------------
\* The steps of the permission request keep the types.
LEMMA AskTypes ==
  ASSUME TypesRight, AskRegisters \/ AskEmits
  PROVE  TypesRight'
<1>0. HostT /\ SdkT /\ NetT /\ WindowT
  BY DEF TypesRight
<1>1. /\ ask.turn \in Nat /\ Permission \in Nat /\ active.id \in Nat
      /\ "command" \in Words
  BY <1>0, SdkType, ActiveType DEF Words
<1>2. uplink \in Seq(RequestT) /\ count \in CountT /\ agent \in AgentT /\ ask \in AskT
      /\ registered \in BOOLEAN
  BY <1>0 DEF NetT, HostT, SdkT
<1>3. CASE AskRegisters
  <2>1. PICK k \in Nat : k = count.tool + 1
    BY <1>0, CountSteps
  <2>2. [step |-> "toolCallStart", turn |-> active.id, tool |-> k] \in AskT
    BY <1>1 DEF AskT
  <2>3. SdkT'
    BY <1>2, <1>3, <2>1, <2>2 DEF AskRegisters, SdkT
  <2>4. HostT'
    BY <1>0, <1>3, CountSteps DEF AskRegisters, HostT
  <2>5. NetT' /\ WindowT'
    BY <1>0, <1>3 DEF AskRegisters, netVars, clientVars, NetT, WindowT
  <2> QED BY <2>3, <2>4, <2>5 DEF TypesRight
<1>4. CASE AskEmits
  <2>1. PICK st \in {"toolCallStart", "toolCallReady"} : st = ask.step
    BY <1>4 DEF AskEmits
  <2>2. PICK a \in ActionT : a = Action(st, ask.turn, Permission, "command")
    BY <1>1, ActionType DEF Types
  <2>3. ask' \in AskT
    BY <1>2, <1>4 DEF AskEmits, AskT
  <2>4. SdkT' /\ uplink' = uplink /\ subscribed' = subscribed
        /\ UNCHANGED clientVars /\ Emit("ask", a) /\ count' = count
    BY <1>2, <1>4, <2>1, <2>2, <2>3 DEF AskEmits, SdkT
  <2> QED BY <1>2, <2>4, HostTypes
<1> QED BY <1>3, <1>4

\* What the reader takes from the connection.
LEMMA TakesRequest ==
  ASSUME NetT, NEW ty, ReaderTakes(ty)
  PROVE  /\ uplink' \in Seq(RequestT) /\ Head(uplink) \in RequestT
         /\ Head(uplink).turn \in Nat /\ Head(uplink).note \in Words
         /\ Head(uplink).type = ty /\ uplink' = Tail(uplink) /\ uplink # << >>
<1>1. uplink \in Seq(RequestT) /\ uplink # << >> /\ uplink' = Tail(uplink)
      /\ Head(uplink).type = ty
  BY DEF NetT, ReaderTakes
<1>2. Head(uplink) \in RequestT /\ Tail(uplink) \in Seq(RequestT)
  BY <1>1, HeadTailProperties
<1> QED BY <1>1, <1>2 DEF RequestT

\* The steps of the reader keep the types.
LEMMA ReaderTypes ==
  ASSUME TypesRight,
         \/ HostSubscribes \/ HostStartsTurn \/ OtherStartsTurn
         \/ HostCancelsTurn \/ ResolvePermission
  PROVE  TypesRight'
<1>0. HostT /\ SdkT /\ NetT /\ WindowT
  BY DEF TypesRight
<1>1. uplink \in Seq(RequestT) /\ count \in CountT /\ agent \in AgentT /\ ask \in AskT
      /\ registered \in BOOLEAN /\ AgentWhenTurnEnds \subseteq AgentT
      /\ Permission \in Nat /\ "" \in Words /\ 0 \in Nat
  BY <1>0, SdkType DEF NetT, HostT, SdkT, Words
<1>2. CASE HostSubscribes
  <2>1. ReaderTakes("subscribe") /\ Send("reader", Snapshot) /\ subscribed' = TRUE
        /\ UNCHANGED <<hostVars, sdkVars, clientVars>>
    BY <1>2 DEF HostSubscribes
  <2>2. PICK a \in ActionT : a = Snapshot
    BY <1>1, ActionType DEF Snapshot, Types
  <2>3. flight' \in Seq(EntryT)
    BY <1>0, <2>1, <2>2, SendType
  <2>4. uplink' \in Seq(RequestT)
    BY <1>0, <2>1, TakesRequest
  <2>5. HostT' /\ SdkT' /\ WindowT'
    BY <1>0, <2>1 DEF HostT, SdkT, WindowT, hostVars, sdkVars, clientVars
  <2>6. NetT'
    BY <2>1, <2>3, <2>4 DEF NetT
  <2> QED BY <2>5, <2>6 DEF TypesRight
<1>3. CASE HostStartsTurn
  <2>1. ReaderTakes("turnStarted") /\ Emit("reader", Action("turnStarted", Head(uplink).turn, 0, ""))
        /\ agent' \in AgentWhenTurnEnds
        /\ UNCHANGED <<count, ask, registered, subscribed, clientVars>>
    BY <1>3 DEF HostStartsTurn
  <2>2. uplink' \in Seq(RequestT) /\ Head(uplink).turn \in Nat
    BY <1>0, <2>1, TakesRequest
  <2>3. PICK a \in ActionT : a = Action("turnStarted", Head(uplink).turn, 0, "")
    BY <1>1, <2>2, ActionType DEF Types
  <2>4. SdkT' /\ subscribed' = subscribed
        /\ UNCHANGED clientVars /\ Emit("reader", a) /\ count' = count
    BY <1>1, <2>1, <2>3 DEF SdkT
  <2> QED BY <1>1, <2>2, <2>4, HostTypes
<1>4. CASE OtherStartsTurn
  <2>1. PICK k \in Nat : k = count.turn + 1
    BY <1>0, CountSteps
  <2>2. PICK a \in ActionT : a = Action("turnStarted", k, 0, "")
    BY <1>1, ActionType DEF Types
  <2>3. SdkT' /\ subscribed' = subscribed /\ uplink' = uplink
        /\ UNCHANGED clientVars /\ Emit("reader", a) /\ count' = [count EXCEPT !.turn = @ + 1]
    BY <1>0, <1>4, <2>1, <2>2 DEF OtherStartsTurn, SdkT, sdkVars
  <2>4. count' \in CountT
    BY <1>0, <2>3, CountSteps
  <2> QED BY <1>1, <2>3, <2>4, HostTypes
<1>5. CASE HostCancelsTurn
  <2>1. ReaderTakes("turnCancelled") /\ Emit("reader", Action("turnCancelled", Head(uplink).turn, 0, ""))
        /\ agent' \in AgentWhenTurnEnds /\ registered' = FALSE
        /\ UNCHANGED <<count, ask, subscribed, clientVars>>
    BY <1>5 DEF HostCancelsTurn
  <2>2. uplink' \in Seq(RequestT) /\ Head(uplink).turn \in Nat
    BY <1>0, <2>1, TakesRequest
  <2>3. PICK a \in ActionT : a = Action("turnCancelled", Head(uplink).turn, 0, "")
    BY <1>1, <2>2, ActionType DEF Types
  <2>4. SdkT' /\ subscribed' = subscribed
        /\ UNCHANGED clientVars /\ Emit("reader", a) /\ count' = count
    BY <1>1, <2>1, <2>3 DEF SdkT
  <2> QED BY <1>1, <2>2, <2>4, HostTypes
<1>6. CASE ResolvePermission
  <2>1. ReaderTakes("toolCallConfirmed") /\ UNCHANGED <<count, agent, ask, subscribed, clientVars>>
    BY <1>6 DEF ResolvePermission
  <2>2. uplink' \in Seq(RequestT) /\ Head(uplink).turn \in Nat /\ Head(uplink).note \in Words
    BY <1>0, <2>1, TakesRequest
  <2>3. PICK a \in ActionT : a = Action("toolCallConfirmed", Head(uplink).turn, Permission, Head(uplink).note)
    BY <1>1, <2>2, ActionType DEF Types
  <2>4. CASE registered' = FALSE /\ Emit("reader", a)
    <3>1. SdkT'
      BY <1>1, <2>1, <2>4 DEF SdkT
    <3> QED BY <1>1, <2>1, <2>2, <2>4, <3>1, HostTypes
  <2>5. CASE UNCHANGED <<chat, registered, flight>>
    BY <1>0, <2>1, <2>2, <2>5 DEF TypesRight, HostT, SdkT, NetT, WindowT, clientVars
  <2> QED BY <1>6, <2>3, <2>4, <2>5 DEF ResolvePermission
<1> QED BY <1>2, <1>3, <1>4, <1>5, <1>6

\* A request has its type.
LEMMA RequestType ==
  ASSUME NEW ty \in {"subscribe", "turnStarted", "turnCancelled", "toolCallConfirmed"},
         NEW t \in Nat, NEW no \in Words
  PROVE  Request(ty, t, no) \in RequestT
  BY DEF Request, RequestT

\* What arrived, and what is still on its way.
Arrived(i) ==
  /\ \A j \in 1..i - 1 : flight[j].from # flight[i].from
  /\ flight' = [j \in 1..Len(flight) - 1 |->
                    IF j < i THEN [flight[j] EXCEPT !.late = TRUE] ELSE flight[j + 1]]
  /\ view' = Projected(view, flight[i])
  /\ screen' = Refreshed(screen, view'.rows)
  /\ link' = (IF flight[i].msg.type = "snapshot" THEN [link EXCEPT !.awaited = @ - 1] ELSE link)
  /\ restored' = (IF flight[i].msg.type = "snapshot" THEN flight[i].was.active.id ELSE restored)
  /\ blurred' = (IF flight[i].msg.type = "snapshot" THEN flight[i].late
                 ELSE blurred \/ flight[i].late \/ Foreign(flight[i]))
  /\ chat' = chat /\ count' = count /\ agent' = agent /\ ask' = ask /\ registered' = registered
  /\ subscribed' = subscribed /\ uplink' = uplink /\ used' = used

\* Receive does that.
LEMMA ReceiveIs == ASSUME NEW i, Receive(i) PROVE Arrived(i)
  BY DEF Receive, Arrived, hostVars, sdkVars

\* What is on its way without the i-th message: those before it are late.
LEMMA ShiftedType ==
  ASSUME NEW f \in Seq(EntryT), NEW i \in DOMAIN f, NEW g,
         g = [j \in 1..Len(f) - 1 |-> IF j < i THEN [f[j] EXCEPT !.late = TRUE] ELSE f[j + 1]]
  PROVE  /\ g \in Seq(EntryT) /\ Len(g) = Len(f) - 1 /\ DOMAIN g = 1..Len(f) - 1
         /\ Len(f) \in Nat /\ i \in 1..Len(f) /\ f[i] \in EntryT
         /\ \A j \in DOMAIN g : \/ j < i /\ j \in DOMAIN f /\ g[j] = [f[j] EXCEPT !.late = TRUE]
                                \/ j >= i /\ j + 1 \in DOMAIN f /\ g[j] = f[j + 1]
<1>1. Len(f) \in Nat /\ DOMAIN f = 1..Len(f) /\ \A j \in DOMAIN f : f[j] \in EntryT
  BY LenProperties, ElementOfSeq
<1>2. i \in 1..Len(f) /\ f[i] \in EntryT
  BY <1>1
<1>3. PICK n \in Nat : n = Len(f) - 1
  BY <1>1, <1>2
<1>4. g = [j \in 1..n |-> IF j < i THEN [f[j] EXCEPT !.late = TRUE] ELSE f[j + 1]]
  BY <1>3
<1>5. ASSUME NEW j \in 1..n
      PROVE  /\ g[j] \in EntryT
             /\ \/ j < i /\ j \in DOMAIN f /\ g[j] = [f[j] EXCEPT !.late = TRUE]
                \/ j >= i /\ j + 1 \in DOMAIN f /\ g[j] = f[j + 1]
  <2>1. j \in DOMAIN f /\ j + 1 \in DOMAIN f
    BY <1>1, <1>2, <1>3
  <2>2. CASE j < i
    <3>1. PICK x \in EntryT : x = f[j]
      BY <1>1, <2>1
    <3>2. [x EXCEPT !.late = TRUE] \in EntryT
      BY DEF EntryT
    <3> QED BY <1>4, <2>1, <2>2, <3>1, <3>2
  <2>3. CASE j >= i
    <3>1. ~(j < i)
      BY <1>2, <2>3
    <3> QED BY <1>1, <1>4, <2>1, <2>3, <3>1
  <2>4. j < i \/ j >= i
    BY <1>2
  <2> QED BY <2>2, <2>3, <2>4
<1>6. g \in [1..n -> EntryT]
  BY <1>4, <1>5
<1>7. g \in Seq(EntryT) /\ Len(g) = n /\ DOMAIN g = 1..n
  BY <1>6, FcnSeq
<1> QED BY <1>1, <1>2, <1>3, <1>5, <1>7

\* A message that arrives keeps the types.
LEMMA ReceiveTypes ==
  ASSUME TypesRight, NEW i \in DOMAIN flight, Receive(i)
  PROVE  TypesRight'
<1>0. HostT /\ SdkT /\ NetT /\ WindowT /\ Arrived(i)
  BY ReceiveIs DEF TypesRight
<1>1. flight \in Seq(EntryT)
  BY <1>0 DEF NetT
<1>2. flight' \in Seq(EntryT) /\ flight[i] \in EntryT
  BY <1>0, <1>1, ShiftedType DEF Arrived
<1>3. view' \in ViewT
  BY <1>0, <1>2, ProjectedType DEF Arrived, WindowT
<1>4. link' \in [up: BOOLEAN, known: BOOLEAN, awaited: Int]
  BY <1>0 DEF Arrived, WindowT
<1>5. flight[i].was.active.id \in Nat /\ flight[i].late \in BOOLEAN
  BY <1>2 DEF EntryT, ChatT, TurnT
<1>6. restored' \in Nat
  BY <1>0, <1>5 DEF Arrived, WindowT
<1>7. blurred' \in BOOLEAN
  <2>1. Foreign(flight[i]) \in BOOLEAN
    <3>1. flight[i].odd \in BOOLEAN
      BY <1>2 DEF EntryT
    <3> QED BY <3>1 DEF Foreign
  <2> QED BY <1>0, <1>5, <2>1 DEF Arrived, WindowT
<1>8. used' = used /\ used \in [opens: Nat, upsets: Nat]
  BY <1>0 DEF Arrived, WindowT
<1>9. WindowT'
  BY <1>3, <1>4, <1>6, <1>7, <1>8 DEF WindowT
<1>10. HostT' /\ SdkT'
  BY <1>0 DEF Arrived, HostT, SdkT
<1>11. NetT'
  BY <1>0, <1>2 DEF Arrived, NetT
<1> QED BY <1>9, <1>10, <1>11 DEF TypesRight

\* A request sent keeps the type of what is on its way to the host.
LEMMA AppendRequest ==
  ASSUME NetT, NEW r \in RequestT, uplink' = Append(uplink, r)
  PROVE  uplink' \in Seq(RequestT)
  BY AppendProperties DEF NetT

\* The steps of the window keep the types.
LEMMA WindowTypes ==
  ASSUME TypesRight, Connect \/ OpenSession \/ Prompt \/ Cancel \/ Answer \/ Drop
  PROVE  TypesRight'
<1>0. HostT /\ SdkT /\ NetT /\ WindowT
  BY DEF TypesRight
<1>1. "" \in Words /\ "approved" \in Words /\ "denied" \in Words /\ 0 \in Nat
  BY DEF Words
<1>2. used \in [opens: Nat, upsets: Nat] /\ [used EXCEPT !.opens = 0] \in [opens: Nat, upsets: Nat]
      /\ [used EXCEPT !.opens = @ + 1] \in [opens: Nat, upsets: Nat]
      /\ [used EXCEPT !.upsets = @ + 1] \in [opens: Nat, upsets: Nat]
  <2>1. used \in [opens: Nat, upsets: Nat]
    BY <1>0 DEF WindowT
  <2>2. PICK x \in Nat, y \in Nat : x = used.opens + 1 /\ y = used.upsets + 1
    BY <2>1
  <2>3. [used EXCEPT !.opens = 0] \in [opens: Nat, upsets: Nat]
      /\ [used EXCEPT !.opens = x] \in [opens: Nat, upsets: Nat]
      /\ [used EXCEPT !.upsets = y] \in [opens: Nat, upsets: Nat]
    BY <2>1
  <2> QED BY <2>1, <2>2, <2>3
<1>3. ASSUME NEW ty \in {"turnCancelled", "toolCallConfirmed"}, NEW no \in Words, Click(ty, no)
      PROVE  TypesRight'
  <2>1. PICK r \in RequestT : r = Request(ty, view.turn, no)
    <3>1. view.turn \in Nat
      BY <1>0 DEF WindowT, ViewT
    <3> QED BY <3>1, RequestType
  <2>2. uplink' = Append(uplink, r) /\ used' = [used EXCEPT !.upsets = @ + 1]
        /\ UNCHANGED <<hostVars, sdkVars, subscribed, flight, link, view, screen,
                   blurred, restored>>
    BY <1>3, <2>1 DEF Click
  <2>3. NetT'
    BY <1>0, <2>2, AppendRequest DEF NetT
  <2>4. WindowT'
    BY <1>0, <1>2, <2>2 DEF WindowT
  <2>5. HostT' /\ SdkT'
    BY <1>0, <2>2 DEF HostT, SdkT, hostVars, sdkVars
  <2> QED BY <2>3, <2>4, <2>5 DEF TypesRight
<1>4. CASE Connect
  <2>1. HostT' /\ SdkT' /\ NetT'
    BY <1>0, <1>4 DEF Connect, HostT, SdkT, NetT, hostVars, sdkVars, netVars
  <2>2. WindowT'
    BY <1>0, <1>2, <1>4 DEF Connect, WindowT
  <2> QED BY <2>1, <2>2 DEF TypesRight
<1>5. CASE OpenSession
  <2>1. PICK r \in RequestT : r = Request("subscribe", 0, "")
    BY <1>1, RequestType
  <2>2. uplink' \in Seq(RequestT)
    BY <1>0, <1>5, <2>1, AppendRequest DEF OpenSession
  <2>3. HostT' /\ SdkT' /\ NetT'
    BY <1>0, <1>5, <2>2 DEF OpenSession, HostT, SdkT, NetT, hostVars, sdkVars
  <2>4. link' \in [up: BOOLEAN, known: BOOLEAN, awaited: Int]
    <3>1. link \in [up: BOOLEAN, known: BOOLEAN, awaited: Int]
      BY <1>0 DEF WindowT
    <3>2. PICK n \in Int : n = link.awaited + 1
      BY <3>1
    <3>3. link' = [link EXCEPT !.known = TRUE, !.awaited = n]
      BY <1>5, <3>2 DEF OpenSession
    <3> QED BY <3>1, <3>3
  <2>5. WindowT'
    BY <1>0, <1>2, <1>5, <2>4 DEF OpenSession, WindowT
  <2> QED BY <2>3, <2>5 DEF TypesRight
<1>6. CASE Prompt
  <2>1. PICK t \in Nat : t = count.turn + 1
    BY <1>0, CountSteps
  <2>2. PICK r \in RequestT : r = Request("turnStarted", t, "")
    BY <1>1, RequestType
  <2>3. PICK a \in ActionT : a = Action("turnStarted", t, 0, "")
    BY <1>1, ActionType DEF Types
  <2>4. /\ count' = [count EXCEPT !.turn = count.turn + 1]
        /\ uplink' = Append(uplink, r) /\ view' = TurnStarted(view, a)
        /\ UNCHANGED <<chat, sdkVars, subscribed, flight, link, used, blurred, restored>>
    BY <1>6, <2>1, <2>2, <2>3 DEF Prompt
  <2>5. view' \in ViewT
    BY <1>0, <2>4, TurnStartedType DEF WindowT
  <2>6. count' \in CountT
    BY <1>0, <2>4, CountSteps
  <2>7. HostT' /\ SdkT' /\ NetT'
    BY <1>0, <2>2, <2>4, <2>6, AppendRequest DEF HostT, SdkT, NetT, sdkVars
  <2>8. WindowT'
    BY <1>0, <2>4, <2>5 DEF WindowT
  <2> QED BY <2>7, <2>8 DEF TypesRight
<1>7. CASE Cancel
  BY <1>1, <1>3, <1>7 DEF Cancel
<1>8. CASE Answer
  BY <1>1, <1>3, <1>8 DEF Answer
<1>9. CASE Drop
  <2>1. HostT' /\ SdkT'
    BY <1>0, <1>9 DEF Drop, HostT, SdkT, hostVars, sdkVars
  <2>2. NetT'
    BY <1>9, None DEF Drop, NetT
  <2>3. WindowT'
    BY <1>0, <1>2, <1>9 DEF Drop, WindowT
  <2> QED BY <2>1, <2>2, <2>3 DEF TypesRight
<1> QED BY <1>4, <1>5, <1>6, <1>7, <1>8, <1>9

\* Every step keeps the types.
LEMMA NextTypes == TypesRight /\ [NextChat]_varsChat => TypesRight'
<1> SUFFICES ASSUME TypesRight, [NextChat]_varsChat PROVE TypesRight'
  OBVIOUS
<1>1. CASE UNCHANGED varsChat
  BY <1>1 DEF varsChat, hostVars, sdkVars, netVars, clientVars, TypesRight, HostT, SdkT, NetT, WindowT
<1>2. CASE NextChat
  BY <1>2, AgentTypes, AskTypes, ReaderTypes, WindowTypes, ReceiveTypes DEF NextChat
<1> QED BY <1>1, <1>2

-----------------------------------------------------------------------------
\* Items: a group of tool calls, or a row with its own kind.
ItemT == {x \in [kind: Kinds \cup {"toolGroup"}, rows: Seq(RowT)] :
             x.kind # "toolGroup" => x.rows[1].kind = x.kind}

\* A row alone is an item.
LEMMA ItemOfRow ==
  ASSUME NEW r \in RowT
  PROVE  Item(r.kind, <<r>>) \in ItemT
<1>1. <<r>> \in Seq(RowT) /\ <<r>>[1] = r
  BY One
<1>2. r.kind \in Kinds
  BY DEF RowT
<1> QED BY <1>1, <1>2 DEF Item, ItemT

\* One more row keeps items items.
LEMMA WithRowType ==
  ASSUME NEW items \in Seq(ItemT), NEW r \in RowT
  PROVE  WithRow(items, r) \in Seq(ItemT)
<1>1. PICK x \in ItemT : x = Item(r.kind, <<r>>)
  BY ItemOfRow
<1>2. Append(items, x) \in Seq(ItemT)
  BY AppendProperties
<1>3. ASSUME items # << >>
      PROVE  Append(Front(items), Item("toolGroup", Append(Last(items).rows, r))) \in Seq(ItemT)
  <2>1. Front(items) \in Seq(ItemT) /\ Last(items) \in ItemT
    <3>1. Len(items) \in Nat /\ Len(items) # 0
      BY <1>3, LenProperties, EmptySeq
    <3>2. Last(items) \in ItemT
      BY <3>1, ElementOfSeq DEF Last
    <3>3. Front(items) \in Seq(ItemT)
      BY <3>1, SubSeqProperties DEF Front
    <3> QED BY <3>2, <3>3
  <2>2. Append(Last(items).rows, r) \in Seq(RowT)
    <3>1. Last(items).rows \in Seq(RowT)
      BY <2>1 DEF ItemT
    <3> QED BY <3>1, AppendProperties
  <2>3. PICK y : y = Item("toolGroup", Append(Last(items).rows, r))
    OBVIOUS
  <2>4. y \in ItemT
    BY <2>2, <2>3 DEF Item, ItemT
  <2> QED BY <2>1, <2>3, <2>4, AppendProperties
<1> QED BY <1>1, <1>2, <1>3 DEF WithRow

\* The items of the beginnings of the rows.
ItemSteps(f, rows) ==
  /\ f[0] = << >>
  /\ \A n \in 1..Len(rows) : f[n] = WithRow(f[n - 1], rows[n])

\* The function projectConversationItems defines by recursion exists.
LEMMA ItemsFcn ==
  ASSUME NEW rows
  PROVE  \A n \in Nat : \E f : f = [k \in 0..n |-> IF k = 0 THEN << >> ELSE WithRow(f[k-1], rows[k])]
<1> DEFINE Sol(m) == \E f : f = [k \in 0..m |-> IF k = 0 THEN << >> ELSE WithRow(f[k-1], rows[k])]
<1> DEFINE S == {m \in Nat : Sol(m)}
<1>1. 0 \in S
  <2> DEFINE f0 == [k \in 0..0 |-> << >>]
  <2>1. f0 = [k \in 0..0 |-> IF k = 0 THEN << >> ELSE WithRow(f0[k-1], rows[k])]
    OBVIOUS
  <2>2. Sol(0)
    BY <2>1
  <2> QED BY <2>2
<1>2. ASSUME NEW m \in S PROVE m + 1 \in S
  <2>1. PICK f : f = [k \in 0..m |-> IF k = 0 THEN << >> ELSE WithRow(f[k-1], rows[k])]
    BY <1>2
  <2> DEFINE g == [k \in 0..m+1 |-> IF k = 0 THEN << >> ELSE WithRow(f[k-1], rows[k])]
  <2>2. m \in Nat
    BY <1>2
  <2>3. ASSUME NEW k \in 0..m PROVE g[k] = f[k]
    <3> HIDE DEF Sol, S
    <3>1. f[k] = IF k = 0 THEN << >> ELSE WithRow(f[k-1], rows[k])
      BY <2>1, Zenon
    <3>2. k \in 0..m+1
      BY <2>2
    <3> QED  BY <3>1, <3>2
  <2>4. ASSUME NEW k \in 0..m+1
        PROVE g[k] = IF k = 0 THEN << >> ELSE WithRow(g[k-1], rows[k])
    <3>1. CASE k = 0
      BY <3>1
    <3>2. CASE k # 0
      <4>1. k - 1 \in 0..m
        BY <2>2, <3>2
      <4>2. g[k-1] = f[k-1]
        BY <4>1, <2>3
      <4>3. g[k] = WithRow(f[k-1], rows[k])
        BY <3>2
      <4> QED BY <3>2, <4>2, <4>3
    <3> QED BY <3>1, <3>2
  <2>5. g = [k \in 0..m+1 |-> IF k = 0 THEN << >> ELSE WithRow(g[k-1], rows[k])]
    <3> HIDE DEF g
    <3>1. g = [k \in 0..m+1 |-> g[k]]
      BY DEF g
    <3> QED BY <3>1, <2>4
  <2>6. Sol(m+1)
    <3> HIDE DEF g
    <3> QED BY <2>5
  <2> HIDE DEF Sol, g
  <2> QED BY <2>2, <2>6
<1>3. S = Nat
  <2> HIDE DEF Sol
  <2>1. S \in SUBSET Nat
    OBVIOUS
  <2> HIDE DEF S
  <2> QED BY <1>1, <1>2, <2>1, Climb
<1> QED BY <1>3

\* projectConversationItems is the last of the steps.
LEMMA ItemsAre ==
  ASSUME NEW rows \in Seq(RowT)
  PROVE  \E f : ItemSteps(f, rows) /\ projectConversationItems(rows) = f[Len(rows)]
<1> DEFINE g == CHOOSE f : f = [k \in 0..Len(rows) |->
                             IF k = 0 THEN << >> ELSE WithRow(f[k-1], rows[k])]
<1>0. Len(rows) \in Nat
  BY LenProperties
<1>1. projectConversationItems(rows) = g[Len(rows)]
  BY DEF projectConversationItems
<1>2. g = [k \in 0..Len(rows) |-> IF k = 0 THEN << >> ELSE WithRow(g[k-1], rows[k])]
  BY <1>0, ItemsFcn
<1> HIDE DEF g
<1>3. \A k \in 0..Len(rows) : g[k] = IF k = 0 THEN << >> ELSE WithRow(g[k-1], rows[k])
  BY <1>2, Zenon
<1>4. g[0] = << >>
  <2>1. 0 \in 0..Len(rows)
    BY <1>0
  <2> QED BY <1>3, <2>1
<1>5. ASSUME NEW n \in 1..Len(rows) PROVE g[n] = WithRow(g[n - 1], rows[n])
  <2>1. n \in 0..Len(rows) /\ n # 0
    BY <1>0
  <2> QED BY <1>3, <2>1
<1> QED BY <1>1, <1>4, <1>5 DEF ItemSteps

\* So it makes items of rows ...
LEMMA ItemsType ==
  ASSUME NEW rows \in Seq(RowT)
  PROVE  projectConversationItems(rows) \in Seq(ItemT)
<1>0. Len(rows) \in Nat
  BY LenProperties
<1>1. PICK f : ItemSteps(f, rows) /\ projectConversationItems(rows) = f[Len(rows)]
  BY ItemsAre
<1> DEFINE S == {m \in Nat : m <= Len(rows) => f[m] \in Seq(ItemT)}
<1>2. 0 \in S
  BY <1>1, None DEF ItemSteps
<1>3. ASSUME NEW m \in S PROVE m + 1 \in S
  <2>0. m \in Nat
    OBVIOUS
  <2>1. ASSUME m + 1 <= Len(rows) PROVE f[m+1] \in Seq(ItemT)
    <3>1. m \in Nat /\ m + 1 \in 1..Len(rows) /\ (m + 1) - 1 = m
      BY <1>0, <2>1
    <3>2. f[m+1] = WithRow(f[m], rows[m+1])
      BY <1>1, <3>1 DEF ItemSteps
    <3>3. f[m] \in Seq(ItemT)
      BY <1>0, <2>1, <3>1
    <3>4. rows[m+1] \in RowT
      BY <3>1, ElementOfSeq
    <3> QED BY <3>2, <3>3, <3>4, WithRowType
  <2> QED BY <2>0, <2>1
<1>4. S = Nat
  <2>1. S \in SUBSET Nat
    OBVIOUS
  <2> HIDE DEF S
  <2> QED BY <1>2, <1>3, <2>1, Climb
<1> QED BY <1>0, <1>1, <1>4

\* ... and of no rows none.
LEMMA ItemsEmpty == projectConversationItems(<< >>) = << >>
<1>1. << >> \in Seq(RowT) /\ Len(<< >>) = 0
  BY None
<1>2. PICK f : ItemSteps(f, << >>) /\ projectConversationItems(<< >>) = f[0]
  BY <1>1, ItemsAre
<1> QED BY <1>2 DEF ItemSteps

-----------------------------------------------------------------------------
\* Rows kept one by one are rows ...
LEMMA KeptType ==
  ASSUME NEW rows \in Seq(RowT), NEW f,
         f = [i \in DOMAIN rows |-> f[i]],
         \A i \in DOMAIN rows : f[i] \in {<< >>, <<rows[i]>>}
  PROVE  f \in Seq(Seq(RowT)) /\ FlattenSeq(f) \in Seq(RowT)
<1>1. Len(rows) \in Nat /\ DOMAIN rows = 1..Len(rows) /\ \A i \in DOMAIN rows : rows[i] \in RowT
  BY LenProperties, ElementOfSeq
<1>2. \A i \in 1..Len(rows) : f[i] \in Seq(RowT)
  <2>1. ASSUME NEW i \in 1..Len(rows) PROVE f[i] \in Seq(RowT)
    <3>1. rows[i] \in RowT /\ f[i] \in {<< >>, <<rows[i]>>}
      BY <1>1
    <3>2. <<rows[i]>> \in Seq(RowT) /\ << >> \in Seq(RowT)
      BY <3>1, One, None
    <3> QED BY <3>1, <3>2
  <2> QED BY <2>1
<1>3. f \in [1..Len(rows) -> Seq(RowT)]
  BY <1>1, <1>2
<1>4. f \in Seq(Seq(RowT))
  BY <1>1, <1>3, FcnSeq
<1> QED BY <1>4, FlattenType

\* ... so the transcript and the lane are given rows ...
LEMMA TranscriptType ==
  ASSUME NEW rows \in Seq(RowT)
  PROVE  ForTranscript(rows) \in Seq(RowT) /\ Lane(rows) \in Seq(RowT)
<1>1. PICK f : f = [i \in DOMAIN rows |-> IF rows[i].kind # "approval" THEN <<rows[i]>> ELSE << >>]
  OBVIOUS
<1>2. PICK g : g = [i \in DOMAIN rows |-> IF rows[i].kind = "approval" /\ rows[i].state = "pending"
                                          THEN <<rows[i]>> ELSE << >>]
  OBVIOUS
<1>3. ForTranscript(rows) = FlattenSeq(f) /\ Lane(rows) = FlattenSeq(g)
  BY <1>1, <1>2 DEF ForTranscript, Lane, Kept
<1>4. f = [i \in DOMAIN rows |-> f[i]] /\ \A i \in DOMAIN rows : f[i] \in {<< >>, <<rows[i]>>}
  BY <1>1
<1>5. g = [i \in DOMAIN rows |-> g[i]] /\ \A i \in DOMAIN rows : g[i] \in {<< >>, <<rows[i]>>}
  BY <1>2
<1> QED BY <1>3, <1>4, <1>5, KeptType

\* ... and the lane's items are items.
LEMMA LaneItemsType ==
  ASSUME NEW rows \in Seq(RowT)
  PROVE  LaneItems(rows) \in Seq(ItemT)
<1>1. Len(rows) \in Nat /\ DOMAIN rows = 1..Len(rows) /\ \A i \in DOMAIN rows : rows[i] \in RowT
  BY LenProperties, ElementOfSeq
<1>2. LaneItems(rows) \in [1..Len(rows) -> ItemT]
  BY <1>1, ItemOfRow DEF LaneItems
<1> QED BY <1>1, <1>2, FcnSeq

\* An element that takes an item becomes what the item would be drawn as.
LEMMA UpdateRenders ==
  ASSUME NEW x \in ItemT, NEW y \in ItemT, Takes(render(x), y)
  PROVE  update(render(x), y) = render(y)
<1>1. CASE y.kind = "toolGroup" /\ render(x).is = "toolGroup"
  <2>1. x.kind = "toolGroup"
    <3>1. x.rows[1].kind \in Kinds => renderSessionEvent(x.rows[1]).is # "toolGroup"
      BY DEF renderSessionEvent, renderMessage, renderTool, renderApproval, Element, IsMessage, Kinds
    <3>2. x.kind # "toolGroup" => x.rows[1].kind \in Kinds
      BY DEF ItemT, Kinds
    <3> QED BY <1>1, <3>1, <3>2 DEF render
  <2>2. PICK e : e = renderToolGroup(x.rows)
    OBVIOUS
  <2>3. render(x) = e /\ render(y) = renderToolGroup(y.rows)
    BY <1>1, <2>1, <2>2 DEF render
  <2>4. update(e, y) = [e EXCEPT !.state = renderToolGroup(y.rows).state,
                                 !.cards = renderToolGroup(y.rows).cards]
    BY <1>1 DEF update, updateToolGroup
  <2>5. PICK s, c : s = GroupState(x.rows) /\ c = [i \in DOMAIN x.rows |-> ToolCard(x.rows[i])]
    OBVIOUS
  <2>6. PICK s1, c1 : s1 = GroupState(y.rows) /\ c1 = [i \in DOMAIN y.rows |-> ToolCard(y.rows[i])]
    OBVIOUS
  <2>7. e = [is |-> "toolGroup", state |-> s, text |-> << >>, cards |-> c, buttons |-> {}]
    BY <2>2, <2>5 DEF renderToolGroup, Element
  <2>8. renderToolGroup(y.rows) = [is |-> "toolGroup", state |-> s1, text |-> << >>,
                                   cards |-> c1, buttons |-> {}]
    BY <2>6 DEF renderToolGroup, Element
  <2>9. update(e, y) = [e EXCEPT !.state = s1, !.cards = c1]
    BY <2>4, <2>8
  <2>10. [e EXCEPT !.state = s1, !.cards = c1]
           = [is |-> "toolGroup", state |-> s1, text |-> << >>, cards |-> c1, buttons |-> {}]
    <3>1. PICK f : f = [e EXCEPT !.state = s1, !.cards = c1]
      OBVIOUS
    <3>2. f.is = "toolGroup" /\ f.state = s1 /\ f.text = << >> /\ f.cards = c1 /\ f.buttons = {}
      BY <2>7, <3>1
    <3>3. f = [is |-> f.is, state |-> f.state, text |-> f.text, cards |-> f.cards,
               buttons |-> f.buttons]
      BY <2>7, <3>1
    <3> QED BY <3>1, <3>2, <3>3
  <2> QED BY <2>3, <2>8, <2>9, <2>10
<1>2. CASE IsMessage(y.kind) /\ render(x).is = "message"
  <2>1. x.kind # "toolGroup"
    BY <1>2 DEF render, renderToolGroup, Element
  <2>2. PICK r, q : r = x.rows[1] /\ q = y.rows[1]
    OBVIOUS
  <2>3. q.kind = y.kind /\ r.kind = x.kind /\ y.kind # "toolGroup" /\ r.kind \in Kinds
    BY <1>2, <2>1, <2>2 DEF ItemT, IsMessage
  <2>4. render(x) = renderSessionEvent(r) /\ render(y) = renderSessionEvent(q)
    BY <2>1, <2>2, <2>3 DEF render
  <2>5. IsMessage(r.kind)
    <3>1. r.kind = "tool" => renderSessionEvent(r).is = "tool"
      BY DEF renderSessionEvent, renderTool, Element, IsMessage
    <3>2. r.kind = "approval" => renderSessionEvent(r).is = "approval"
      BY DEF renderSessionEvent, renderApproval, Element, IsMessage
    <3>3. r.kind = "error" => renderSessionEvent(r).is = "error"
      BY DEF renderSessionEvent, Element, IsMessage
    <3>4. renderSessionEvent(r).is = "message"
      BY <1>2, <2>4
    <3>5. r.kind \in {"user", "agent"}
      BY <2>3, <3>1, <3>2, <3>3, <3>4 DEF Kinds
    <3> QED BY <3>5 DEF IsMessage
  <2>6. render(x) = renderMessage(r) /\ render(y) = renderMessage(q)
    BY <1>2, <2>3, <2>4, <2>5 DEF renderSessionEvent, IsMessage
  <2>7. update(render(x), y) = [renderMessage(r) EXCEPT !.state = q.kind, !.text = q.text]
    BY <2>2, <2>3, <2>6 DEF update, updateSessionEvent
  <2> QED BY <2>6, <2>7 DEF renderMessage, Element
<1> QED BY <1>1, <1>2 DEF Takes

\* What a host of elements shows: the items it was given last.
Shows(drawn, items) ==
  drawn = [items |-> items, elements |-> [i \in DOMAIN items |-> render(items[i])]]

\* An update leaves no element of the items drawn before.
LEMMA DrawnShows ==
  ASSUME NEW before, NEW old \in Seq(ItemT), NEW items \in Seq(ItemT), Shows(before, old)
  PROVE  Shows(Drawn(before, items), items)
<1>1. before.items = old /\ \A i \in DOMAIN old : before.elements[i] = render(old[i])
  BY DEF Shows
<1>2. \A i \in DOMAIN old : old[i] \in ItemT
  BY LenProperties, ElementOfSeq
<1>3. \A i \in DOMAIN items : items[i] \in ItemT
  BY LenProperties, ElementOfSeq
<1>4. PICK e : e = [i \in DOMAIN items |->
        IF i \notin DOMAIN before.items THEN render(items[i])
        ELSE IF before.items[i] = items[i] THEN before.elements[i]
        ELSE IF Takes(before.elements[i], items[i])
        THEN update(before.elements[i], items[i])
        ELSE render(items[i])]
  OBVIOUS
<1>5. Drawn(before, items) = [items |-> items, elements |-> e]
  BY <1>4 DEF Drawn
<1>6. ASSUME NEW i \in DOMAIN items PROVE e[i] = render(items[i])
  <2>1. CASE i \notin DOMAIN old
    BY <1>1, <1>4, <2>1
  <2>2. CASE i \in DOMAIN old /\ Takes(render(old[i]), items[i])
    <3>1. update(render(old[i]), items[i]) = render(items[i])
      BY <1>2, <1>3, <2>2, UpdateRenders
    <3> QED BY <1>1, <1>4, <2>2, <3>1
  <2>3. CASE i \in DOMAIN old /\ ~Takes(render(old[i]), items[i])
    BY <1>1, <1>4, <2>3
  <2> QED BY <2>1, <2>2, <2>3
<1>7. e = [i \in DOMAIN items |-> render(items[i])]
  BY <1>4, <1>6
<1> QED BY <1>5, <1>7 DEF Shows

\* The screen was drawn for the rows.
ScreenOf(s, rows) ==
  /\ s = [transcript |-> s.transcript, interruption |-> s.interruption]
  /\ Shows(s.transcript, projectConversationItems(ForTranscript(rows)))
  /\ Shows(s.interruption, LaneItems(Lane(rows)))

\* Refresh makes the screen show the rows it is given, whatever it showed before.
LEMMA RefreshedShows ==
  ASSUME NEW s, NEW old \in Seq(RowT), NEW rows \in Seq(RowT), ScreenOf(s, old)
  PROVE  ScreenOf(Refreshed(s, rows), rows)
<1>1. PICK o, n, ol, nl : /\ o = projectConversationItems(ForTranscript(old))
                          /\ n = projectConversationItems(ForTranscript(rows))
                          /\ ol = LaneItems(Lane(old)) /\ nl = LaneItems(Lane(rows))
  OBVIOUS
<1>2. o \in Seq(ItemT) /\ n \in Seq(ItemT) /\ ol \in Seq(ItemT) /\ nl \in Seq(ItemT)
  BY <1>1, TranscriptType, ItemsType, LaneItemsType
<1>3. Shows(Drawn(s.transcript, n), n) /\ Shows(Drawn(s.interruption, nl), nl)
  BY <1>1, <1>2, DrawnShows DEF ScreenOf
<1>4. Refreshed(s, rows) = [transcript |-> Drawn(s.transcript, n),
                            interruption |-> Drawn(s.interruption, nl)]
  BY <1>1 DEF Refreshed, updateTranscript, updateLane
<1> QED BY <1>1, <1>3, <1>4 DEF ScreenOf

\* A view never opened shows no rows.
LEMMA EmptyScreen == ScreenOf(NewView, << >>)
<1>1. DOMAIN << >> = {}
  OBVIOUS
<1>2. PICK f : f = [i \in DOMAIN << >> |-> IF (<< >>)[i].kind # "approval" THEN <<(<< >>)[i]>> ELSE << >>]
  OBVIOUS
<1>3. f = << >>
  BY <1>2
<1>4. ForTranscript(<< >>) = << >> /\ Lane(<< >>) = << >>
  BY FlattenEmpty DEF ForTranscript, Lane, Kept
<1>5. LaneItems(<< >>) = << >>
  BY DEF LaneItems
<1>6. [i \in DOMAIN << >> |-> render((<< >>)[i])] = << >>
  OBVIOUS
<1> QED BY <1>4, <1>5, <1>6, ItemsEmpty DEF ScreenOf, NewView, NothingDrawn, Shows

\* A screen that shows the rows is one a view opened now would have.
LEMMA ScreenRight ==
  ASSUME NEW rows \in Seq(RowT), view.rows = rows, ScreenOf(screen, rows)
  PROVE  ScreenShowsRows
<1>1. PICK o : o = Refreshed(NewView, rows)
  OBVIOUS
<1>2. ScreenOf(o, rows)
  BY <1>1, EmptyScreen, RefreshedShows, None
<1> QED BY <1>1, <1>2 DEF ScreenShowsRows, ScreenOf, Shows

\* The inductive invariant of the screen.
ScreenInv == TypesRight /\ ScreenOf(screen, view.rows)

\* It holds in the beginning ...
LEMMA InitScreen == InitChat => ScreenInv
<1> SUFFICES ASSUME InitChat PROVE ScreenInv
  OBVIOUS
<1>1. screen = NewView /\ view.rows = << >>
  BY DEF InitChat
<1> QED BY <1>1, InitTypes, EmptyScreen DEF ScreenInv

\* ... and every step keeps it: a step that changes rows refreshes the screen.
LEMMA NextScreen == ScreenInv /\ [NextChat]_varsChat => ScreenInv'
<1> SUFFICES ASSUME ScreenInv, [NextChat]_varsChat PROVE ScreenInv'
  OBVIOUS
<1>1. TypesRight /\ TypesRight'
  BY NextTypes DEF ScreenInv
<1>2. view.rows \in Seq(RowT) /\ view'.rows \in Seq(RowT)
  BY <1>1 DEF TypesRight, WindowT, ViewT
<1>3. ScreenOf(screen, view.rows)
  BY DEF ScreenInv
<1>4. CASE screen' = Refreshed(screen, view'.rows)
  <2>1. ScreenOf(Refreshed(screen, view'.rows), view'.rows)
    BY <1>2, <1>3, RefreshedShows
  <2> QED BY <1>1, <1>4, <2>1 DEF ScreenInv
<1>5. CASE screen' = screen /\ view' = view
  BY <1>1, <1>3, <1>5 DEF ScreenInv
<1>6. \/ screen' = Refreshed(screen, view'.rows)
      \/ screen' = screen /\ view' = view
  <2>1. CASE UNCHANGED varsChat
    BY <2>1 DEF varsChat, clientVars
  <2>2. CASE NextChat
    <3>1. CASE \E i \in DOMAIN flight : Receive(i)
      BY <3>1, ReceiveIs DEF Arrived
    <3>2. CASE Prompt
      BY <3>2 DEF Prompt
    <3>3. CASE Cancel \/ Answer
      BY <3>3 DEF Cancel, Answer, Click
    <3>4. CASE AgentText \/ AgentStartsTool \/ AgentToolReady \/ AgentToolComplete \/ AgentEnds
               \/ AskRegisters \/ AskEmits
      BY <3>4 DEF AgentText, AgentStartsTool, AgentToolReady, AgentToolComplete, AgentEnds,
                  AskRegisters, AskEmits, clientVars
    <3>5. CASE HostSubscribes \/ HostStartsTurn \/ OtherStartsTurn \/ HostCancelsTurn
               \/ ResolvePermission
      BY <3>5 DEF HostSubscribes, HostStartsTurn, OtherStartsTurn, HostCancelsTurn,
                  ResolvePermission, clientVars
    <3>6. CASE Connect \/ OpenSession \/ Drop
      BY <3>6 DEF Connect, OpenSession, Drop
    <3> QED BY <2>2, <3>1, <3>2, <3>3, <3>4, <3>5, <3>6 DEF NextChat
  <2> QED BY <2>1, <2>2
<1> QED BY <1>4, <1>5, <1>6

\* Every variable of ChatProjection keeps its type, the history and what is on its
\* way included.
THEOREM ChatTypes == SpecChat => []TypesRight
  BY InitTypes, NextTypes, PTL DEF SpecChat

\* The elements of the view show what a view opened now would show, whatever was
\* drawn before: conversation-transcript.ts and chat-input-lanes.ts update them index
\* by index and leave none of its old kind.
THEOREM ScreenShowsItsRows == SpecChat => []ScreenShowsRows
<1>1. ScreenInv => ScreenShowsRows
  BY ScreenRight DEF ScreenInv, TypesRight, WindowT, ViewT
<1> QED BY <1>1, InitScreen, NextScreen, PTL DEF SpecChat

-----------------------------------------------------------------------------
\* A part after an action that adds none.
Changed(p, a) ==
  CASE a.type = "delta" -> Longer(p, a.text)
    [] a.type = "toolCallReady" /\ p.tool = a.tool ->
          [p EXCEPT !.input = a.note, !.status =
              IF a.tool = Permission THEN "pending-confirmation" ELSE "running"]
    [] a.type = "toolCallConfirmed" /\ p.tool = a.tool ->
          [p EXCEPT !.status = IF a.note = "approved" THEN "running" ELSE "cancelled"]
    [] a.type = "toolCallComplete" /\ p.tool = a.tool -> [p EXCEPT !.status = a.note]
    [] OTHER -> p

\* The actions that add a part to a turn.
Adds == {"responsePart", "toolCallStart"}

\* What the reducers make of a turn: one part more, or each part changed.
ReducedTo(r, t, a) ==
  /\ r.id = t.id /\ r.failed = t.failed
  /\ a.type = "responsePart" => r.parts = Append(t.parts, TextPart)
  /\ a.type = "toolCallStart" => r.parts = Append(t.parts, ToolPart(a.tool))
  /\ a.type \notin Adds => /\ DOMAIN r.parts = DOMAIN t.parts
                           /\ \A i \in DOMAIN t.parts : r.parts[i] = Changed(t.parts[i], a)

\* The reducers of the parts, one by one.
LEMMA ReducedIs ==
  ASSUME NEW t \in TurnT, NEW a \in ActionT
  PROVE  ReducedTo(Reduced(t, a), t, a)
<1>1. PICK p : p = t.parts
  OBVIOUS
<1>2. p \in Seq(PartT) /\ t = [id |-> t.id, parts |-> p, failed |-> t.failed]
  BY <1>1 DEF TurnT
<1>a. ASSUME NEW q PROVE [t EXCEPT !.parts = q] = [id |-> t.id, parts |-> q, failed |-> t.failed]
  BY <1>2
<1>5. CASE a.type \in Adds
  <2>2. \/ a.type = "responsePart" /\ Reduced(t, a) = [t EXCEPT !.parts = Append(p, TextPart)]
        \/ a.type = "toolCallStart" /\ Reduced(t, a) = [t EXCEPT !.parts = Append(p, ToolPart(a.tool))]
    BY <1>1, <1>5 DEF Reduced, Adds
  <2> QED BY <1>1, <1>5, <1>a, <2>2 DEF ReducedTo, Adds
<1>6. CASE a.type = "delta"
  <2>1. PICK q : q = [i \in DOMAIN p |-> Longer(p[i], a.text)]
    OBVIOUS
  <2>2. DOMAIN q = DOMAIN p /\ \A i \in DOMAIN p : q[i] = Changed(p[i], a)
    BY <1>6, <2>1 DEF Changed
  <2>5. Reduced(t, a) = [t EXCEPT !.parts = q]
    BY <1>1, <1>6, <2>1 DEF Reduced
  <2> QED BY <1>1, <1>6, <1>a, <2>2, <2>5 DEF ReducedTo, Adds
<1>7. CASE a.type = "toolCallReady"
  <2>1. PICK q : q = [i \in DOMAIN p |->
                IF p[i].tool = a.tool
                THEN [p[i] EXCEPT !.input = a.note, !.status =
                        IF a.tool = Permission THEN "pending-confirmation" ELSE "running"]
                ELSE p[i]]
    OBVIOUS
  <2>2. DOMAIN q = DOMAIN p /\ \A i \in DOMAIN p : q[i] = Changed(p[i], a)
    BY <1>7, <2>1 DEF Changed
  <2>5. Reduced(t, a) = [t EXCEPT !.parts = q]
    BY <1>1, <1>7, <2>1 DEF Reduced, WithTool
  <2> QED BY <1>1, <1>7, <1>a, <2>2, <2>5 DEF ReducedTo, Adds
<1>8. CASE a.type = "toolCallConfirmed"
  <2>1. PICK q : q = [i \in DOMAIN p |->
                IF p[i].tool = a.tool
                THEN [p[i] EXCEPT !.status =
                        IF a.note = "approved" THEN "running" ELSE "cancelled"]
                ELSE p[i]]
    OBVIOUS
  <2>2. DOMAIN q = DOMAIN p /\ \A i \in DOMAIN p : q[i] = Changed(p[i], a)
    BY <1>8, <2>1 DEF Changed
  <2>5. Reduced(t, a) = [t EXCEPT !.parts = q]
    BY <1>1, <1>8, <2>1 DEF Reduced, WithTool
  <2> QED BY <1>1, <1>8, <1>a, <2>2, <2>5 DEF ReducedTo, Adds
<1>9. CASE a.type = "toolCallComplete"
  <2>1. PICK q : q = [i \in DOMAIN p |->
                IF p[i].tool = a.tool THEN [p[i] EXCEPT !.status = a.note] ELSE p[i]]
    OBVIOUS
  <2>2. DOMAIN q = DOMAIN p /\ \A i \in DOMAIN p : q[i] = Changed(p[i], a)
    BY <1>9, <2>1 DEF Changed
  <2>5. Reduced(t, a) = [t EXCEPT !.parts = q]
    BY <1>1, <1>9, <2>1 DEF Reduced, WithTool
  <2> QED BY <1>1, <1>9, <1>a, <2>2, <2>5 DEF ReducedTo, Adds
<1>10. CASE a.type \notin {"responsePart", "toolCallStart", "delta", "toolCallReady",
                           "toolCallConfirmed", "toolCallComplete"}
  <2>1. Reduced(t, a) = t
    BY <1>10 DEF Reduced
  <2>2. \A i \in DOMAIN t.parts : Changed(t.parts[i], a) = t.parts[i]
    BY <1>10 DEF Changed
  <2> QED BY <1>10, <2>1, <2>2 DEF ReducedTo, Adds
<1> QED BY <1>5, <1>6, <1>7, <1>8, <1>9, <1>10 DEF Adds

\* The actions that change the state of a call.
Settles == {"toolCallReady", "toolCallConfirmed", "toolCallComplete"}

\* The part stays what it is; a delta lengthens text, the messages about a call change its card.
ChangedTo(q, p, a) ==
  /\ q \in PartT /\ q.kind = p.kind /\ q.tool = p.tool
  /\ \/ q.text = p.text /\ ~(a.type = "delta" /\ p.kind = "text")
     \/ a.type = "delta" /\ p.kind = "text" /\ q.text = p.text \o a.text
  /\ q = p \/ a.type = "delta" \/ (p.tool = a.tool /\ a.type \in Settles)
  /\ a.type = "delta" => q.status = p.status /\ q.input = p.input
  /\ p.kind = "tool" /\ a.type = "delta" => q = p
  /\ a.type = "toolCallReady" /\ p.tool = a.tool => q.input = a.note /\ q.status =
              IF a.tool = Permission THEN "pending-confirmation" ELSE "running"
  /\ a.type = "toolCallConfirmed" /\ p.tool = a.tool =>
         q.input = p.input /\ q.status = IF a.note = "approved" THEN "running" ELSE "cancelled"
  /\ a.type = "toolCallComplete" /\ p.tool = a.tool => q.input = p.input /\ q.status = a.note

\* The reducers of one part.
LEMMA ChangedIs ==
  ASSUME NEW p \in PartT, NEW a \in ActionT
  PROVE  ChangedTo(Changed(p, a), p, a)
<1>1. p.text \in Seq(Nat) /\ a.text \in Seq(Nat) /\ a.note \in Words /\ p.kind \in {"text", "tool"}
      /\ p = [kind |-> p.kind, text |-> p.text, tool |-> p.tool, status |-> p.status, input |-> p.input]
  BY DEF PartT, ActionT
<1>2. CASE a.type = "delta"
  <2>1. Changed(p, a) = Longer(p, a.text)
    BY <1>2 DEF Changed
  <2>2. CASE p.kind = "text"
    <3>1. PICK x \in Seq(Nat) : x = p.text \o a.text
      BY <1>1, ConcatProperties
    <3>2. Changed(p, a) = [p EXCEPT !.text = x]
      BY <2>1, <2>2, <3>1 DEF Longer
    <3>3. [p EXCEPT !.text = x] \in PartT
      BY DEF PartT
    <3> QED BY <1>1, <1>2, <2>2, <3>1, <3>2, <3>3 DEF ChangedTo, Settles
  <2>3. CASE p.kind # "text"
    <3>1. Changed(p, a) = p
      BY <2>1, <2>3 DEF Longer
    <3> QED BY <1>1, <1>2, <2>3, <3>1 DEF ChangedTo, Settles
  <2> QED BY <2>2, <2>3
<1>3. CASE a.type = "toolCallReady" /\ p.tool = a.tool
  <2>1. PICK w : w = IF a.tool = Permission THEN "pending-confirmation" ELSE "running"
    OBVIOUS
  <2>2. Changed(p, a) = [p EXCEPT !.input = a.note, !.status = w]
    BY <1>3, <2>1 DEF Changed
  <2>3. [p EXCEPT !.input = a.note, !.status = w] \in PartT
    BY <1>1, <2>1 DEF PartT, Words
  <2> QED BY <1>1, <1>3, <2>1, <2>2, <2>3 DEF ChangedTo, Settles
<1>4. CASE a.type = "toolCallConfirmed" /\ p.tool = a.tool
  <2>1. PICK w : w = IF a.note = "approved" THEN "running" ELSE "cancelled"
    OBVIOUS
  <2>2. Changed(p, a) = [p EXCEPT !.status = w]
    BY <1>4, <2>1 DEF Changed
  <2>3. [p EXCEPT !.status = w] \in PartT
    BY <1>1, <2>1 DEF PartT, Words
  <2> QED BY <1>1, <1>4, <2>1, <2>2, <2>3 DEF ChangedTo, Settles
<1>5. CASE a.type = "toolCallComplete" /\ p.tool = a.tool
  <2>2. Changed(p, a) = [p EXCEPT !.status = a.note]
    BY <1>5 DEF Changed
  <2>3. [p EXCEPT !.status = a.note] \in PartT
    BY <1>1 DEF PartT
  <2> QED BY <1>1, <1>5, <2>2, <2>3 DEF ChangedTo, Settles
<1>6. CASE a.type # "delta" /\ ~(p.tool = a.tool /\ a.type \in Settles)
  <2>1. Changed(p, a) = p
    BY <1>6 DEF Changed, Settles
  <2> QED BY <1>6, <2>1 DEF ChangedTo, Settles
<1> QED BY <1>2, <1>3, <1>4, <1>5, <1>6 DEF Settles

\* What the end of a turn makes of its parts.
EndedTo(r, t, f) ==
  /\ r.id = t.id /\ r.failed = f /\ DOMAIN r.parts = DOMAIN t.parts
  /\ \A i \in DOMAIN t.parts :
        \/ r.parts[i] = t.parts[i]
           /\ (t.parts[i].kind = "tool" => t.parts[i].status \in Finished)
        \/ /\ r.parts[i] = [t.parts[i] EXCEPT !.status = "cancelled"]
           /\ t.parts[i].kind = "tool" /\ t.parts[i].status \notin Finished

\* The end of a turn, part by part.
LEMMA EndedIs ==
  ASSUME NEW t \in TurnT, NEW f
  PROVE  EndedTo(Ended(t, f), t, f)
<1>1. PICK p : p = t.parts
  OBVIOUS
<1>2. PICK q : q = [i \in DOMAIN p |->
                  IF p[i].kind = "tool" /\ p[i].status \notin Finished
                  THEN [p[i] EXCEPT !.status = "cancelled"] ELSE p[i]]
  OBVIOUS
<1>3. Ended(t, f) = [t EXCEPT !.failed = f, !.parts = q]
  BY <1>1, <1>2 DEF Ended
<1>4. Ended(t, f) = [id |-> t.id, parts |-> q, failed |-> f]
  BY <1>3 DEF TurnT
<1>5. ASSUME NEW i \in DOMAIN p
      PROVE  \/ q[i] = p[i] /\ (p[i].kind = "tool" => p[i].status \in Finished)
             \/ /\ q[i] = [p[i] EXCEPT !.status = "cancelled"]
                /\ p[i].kind = "tool" /\ p[i].status \notin Finished
  BY <1>2
<1>6. DOMAIN q = DOMAIN p
  BY <1>2
<1> QED BY <1>1, <1>4, <1>5, <1>6 DEF EndedTo

-----------------------------------------------------------------------------
\* The turns of a chat, and their names.
TurnSet(c) == {c.past[i] : i \in DOMAIN c.past} \cup
              (IF c.active.id = 0 THEN {} ELSE {c.active})
Ids(c) == {t.id : t \in TurnSet(c)}

\* A tool part with that number.
HasCall(t, k) == \E i \in DOMAIN t.parts : t.parts[i].kind = "tool" /\ t.parts[i].tool = k

\* Of turn id, when n calls are numbered, perm is the call of the request and asked its turn.
PartGood(p, id, n, perm, asked) ==
  /\ p.kind = "tool" => p.tool \in 1..n /\ p.text = << >> /\ (p.tool = perm => id = asked)
  /\ p.kind = "text" => p.tool = 0 /\ p.status = ""
  /\ p.status = "pending-confirmation" => p.tool = perm
  /\ p.status = "streaming" => p.input = ""

\* A turn has at most one part of text, and no call twice.
OneText(t) == \A i, j \in DOMAIN t.parts : t.parts[i].kind = "text" /\ t.parts[j].kind = "text" => i = j
OneCall(t) == \A i, j \in DOMAIN t.parts :
   t.parts[i].kind = "tool" /\ t.parts[j].kind = "tool" /\ t.parts[i].tool = t.parts[j].tool => i = j

\* A turn of the host's chat.
TurnGood(t, n, perm, asked) ==
  /\ \A i \in DOMAIN t.parts : PartGood(t.parts[i], t.id, n, perm, asked)
  /\ OneText(t) /\ OneCall(t)

\* A call belongs to one turn, a name to one turn.
Apart(c, n) == \A t, u \in TurnSet(c), k \in 1..n : HasCall(t, k) /\ HasCall(u, k) => t.id = u.id
Named(c) == /\ \A i, j \in DOMAIN c.past : c.past[i].id = c.past[j].id => i = j
            /\ \A i \in DOMAIN c.past : c.past[i].id # c.active.id
Resting(c) == /\ c.active.id = 0 => c.active = NoTurn
              /\ ~c.active.failed

\* The host's chat: its turns, their names and whose the calls are.
ChatGood(c, m, n, perm, asked) ==
  /\ \A t \in TurnSet(c) : t.id \in 1..m /\ TurnGood(t, n, perm, asked)
  /\ Apart(c, n) /\ Named(c) /\ Resting(c)

\* The action fits the turn it is applied to.
Fits(a, t, n, perm, asked) ==
  /\ a.type = "responsePart" => ~HasText(t)
  /\ a.type \in Settles => a.tool \in 1..n
  /\ a.type = "toolCallStart" => /\ a.tool \in 1..n /\ ~HasCall(t, a.tool)
                                 /\ a.tool = perm => t.id = asked
  /\ a.type = "toolCallComplete" => a.note \in {"completed", "failed"}

\* The types of a turn's parts.
LEMMA PartsOf ==
  ASSUME NEW t \in TurnT
  PROVE  /\ t.parts \in Seq(PartT) /\ Len(t.parts) \in Nat /\ DOMAIN t.parts = 1..Len(t.parts)
         /\ \A i \in DOMAIN t.parts : t.parts[i] \in PartT
         /\ t.id \in Nat /\ t.failed \in BOOLEAN
<1>1. t.parts \in Seq(PartT) /\ t.id \in Nat /\ t.failed \in BOOLEAN
  BY DEF TurnT
<1> QED BY <1>1, LenProperties, ElementOfSeq

\* The parts after one was added.
AddedTo(q, p, x) == \E n \in Nat :
  /\ DOMAIN p = 1..n /\ DOMAIN q = 1..n+1 /\ q[n+1] = x
  /\ \A i \in 1..n : q[i] = p[i]

\* Append adds one element and keeps the others.
LEMMA AppendAdds ==
  ASSUME NEW X, NEW p \in Seq(X), NEW x \in X
  PROVE  AddedTo(Append(p, x), p, x)
<1>1. PICK n \in Nat : n = Len(p)
  BY LenProperties
<1>2. DOMAIN p = 1..n
  BY <1>1, LenProperties
<1>3. Append(p, x) \in Seq(X) /\ Len(Append(p, x)) = n + 1 /\ Append(p, x)[n + 1] = x
      /\ \A i \in 1..n : Append(p, x)[i] = p[i]
  BY <1>1, AppendProperties
<1>4. DOMAIN Append(p, x) = 1..n+1
  BY <1>3, LenProperties
<1> QED BY <1>2, <1>3, <1>4 DEF AddedTo

\* A turn stays right under an action that fits it ...
LEMMA ReducedGood ==
  ASSUME NEW t \in TurnT, NEW a \in ActionT, NEW n \in Nat, NEW asked,
         TurnGood(t, n, Permission, asked), Fits(a, t, n, Permission, asked)
  PROVE  /\ TurnGood(Reduced(t, a), n, Permission, asked)
         /\ \A k : HasCall(Reduced(t, a), k) <=> HasCall(t, k) \/ (a.type = "toolCallStart" /\ k = a.tool)
<1>1. PICK r \in TurnT : r = Reduced(t, a)
  BY ReducedType
<1>2. ReducedTo(r, t, a)
  BY <1>1, ReducedIs
<1>3. /\ t.parts \in Seq(PartT) /\ \A i \in DOMAIN t.parts : t.parts[i] \in PartT
  BY PartsOf
<1>4. /\ \A i \in DOMAIN t.parts : PartGood(t.parts[i], t.id, n, Permission, asked)
      /\ OneText(t) /\ OneCall(t) /\ r.id = t.id
  BY <1>2 DEF TurnGood, ReducedTo
<1>5. CASE a.type \in Adds
  <2>1. PICK x \in PartT : /\ r.parts = Append(t.parts, x)
                           /\ \/ a.type = "responsePart" /\ x = TextPart
                              \/ a.type = "toolCallStart" /\ x = ToolPart(a.tool)
    BY <1>2, <1>5, PartTypes DEF ReducedTo, Adds, ActionT
  <2>2. AddedTo(r.parts, t.parts, x)
    BY <1>3, <2>1, AppendAdds
  <2>3. PICK l \in Nat : /\ DOMAIN t.parts = 1..l /\ DOMAIN r.parts = 1..l+1 /\ r.parts[l+1] = x
                         /\ \A i \in 1..l : r.parts[i] = t.parts[i]
    BY <2>2 DEF AddedTo
  <2>4. \A i \in DOMAIN r.parts : i \in 1..l \/ i = l + 1
    BY <2>3
  <2>a. \/ /\ a.type = "responsePart" /\ x.kind = "text" /\ x.text = << >> /\ x.tool = 0 /\ x.status = ""
        \/ /\ a.type = "toolCallStart" /\ x.kind = "tool" /\ x.text = << >> /\ x.tool = a.tool
           /\ x.status = "streaming" /\ x.input = ""
    <3>1. CASE a.type = "responsePart" /\ x = TextPart
      BY <3>1 DEF TextPart
    <3>2. CASE a.type = "toolCallStart" /\ x = ToolPart(a.tool)
      BY <3>2 DEF ToolPart
    <3> QED BY <2>1, <3>1, <3>2
  <2>5. PartGood(x, t.id, n, Permission, asked)
    <3>1. a.type = "toolCallStart" => a.tool \in 1..n /\ (a.tool = Permission => t.id = asked)
      BY DEF Fits
    <3> QED BY <2>a, <3>1 DEF PartGood
  <2>6. \A i \in DOMAIN r.parts : PartGood(r.parts[i], r.id, n, Permission, asked)
    BY <1>4, <2>3, <2>4, <2>5
  <2>7. x.kind = "text" => \A i \in DOMAIN t.parts : t.parts[i].kind # "text"
    BY <2>a DEF Fits, HasText
  <2>8. x.kind = "tool" => \A i \in DOMAIN t.parts : t.parts[i].kind = "tool" => t.parts[i].tool # x.tool
    BY <2>a DEF Fits, HasCall
  <2>9. OneText(r)
    BY <1>4, <2>3, <2>4, <2>7 DEF OneText
  <2>10. OneCall(r)
    BY <1>4, <2>3, <2>4, <2>8 DEF OneCall
  <2>11. \A k : HasCall(r, k) <=> HasCall(t, k) \/ (x.kind = "tool" /\ x.tool = k)
    <3>1. ASSUME NEW k, HasCall(r, k) PROVE HasCall(t, k) \/ (x.kind = "tool" /\ x.tool = k)
      <4>1. PICK i \in DOMAIN r.parts : r.parts[i].kind = "tool" /\ r.parts[i].tool = k
        BY <3>1 DEF HasCall
      <4>2. CASE i \in 1..l
        BY <2>3, <4>1, <4>2 DEF HasCall
      <4>3. CASE i = l + 1
        BY <2>3, <4>1, <4>3
      <4> QED BY <2>4, <4>2, <4>3
    <3>2. ASSUME NEW k, HasCall(t, k) PROVE HasCall(r, k)
      <4>1. PICK i \in 1..l : t.parts[i].kind = "tool" /\ t.parts[i].tool = k
        BY <2>3, <3>2 DEF HasCall
      <4>2. i \in DOMAIN r.parts /\ r.parts[i] = t.parts[i]
        BY <2>3
      <4> QED BY <4>1, <4>2 DEF HasCall
    <3>3. ASSUME NEW k, x.kind = "tool", x.tool = k PROVE HasCall(r, k)
      <4>1. l + 1 \in DOMAIN r.parts
        BY <2>3
      <4> QED BY <2>3, <3>3, <4>1 DEF HasCall
    <3> QED BY <3>1, <3>2, <3>3
  <2>12. \A k : (x.kind = "tool" /\ x.tool = k) <=> (a.type = "toolCallStart" /\ k = a.tool)
    BY <2>a
  <2> QED BY <1>1, <2>6, <2>9, <2>10, <2>11, <2>12 DEF TurnGood
<1>6. CASE a.type \notin Adds
  <2>1. DOMAIN r.parts = DOMAIN t.parts /\ \A i \in DOMAIN t.parts : ChangedTo(r.parts[i], t.parts[i], a)
    BY <1>2, <1>3, <1>6, ChangedIs DEF ReducedTo
  <2>2. \A i \in DOMAIN t.parts : r.parts[i].kind = t.parts[i].kind /\ r.parts[i].tool = t.parts[i].tool
    BY <2>1 DEF ChangedTo
  <2>3. OneText(r) /\ OneCall(r)
    BY <1>4, <2>1, <2>2 DEF OneText, OneCall
  <2>4. \A k : HasCall(r, k) <=> HasCall(t, k)
    BY <2>1, <2>2 DEF HasCall
  <2>5. ASSUME NEW p \in PartT, NEW q, ChangedTo(q, p, a), PartGood(p, t.id, n, Permission, asked)
        PROVE  PartGood(q, t.id, n, Permission, asked)
    <3>1. p.kind \in {"text", "tool"} /\ q.kind = p.kind /\ q.tool = p.tool
      BY <2>5 DEF ChangedTo, PartT
    <3>2. CASE a.type = "delta"
      BY <2>5, <3>1, <3>2 DEF ChangedTo, PartGood
    <3>3. CASE q = p
      BY <2>5, <3>3
    <3>4. CASE a.type \in Settles /\ p.tool = a.tool
      <4>1. p.tool \in 1..n /\ p.tool # 0
        BY <3>4 DEF Fits
      <4>2. p.kind = "tool" /\ q.kind = "tool" /\ q.text = << >>
        BY <2>5, <3>1, <3>4, <4>1 DEF PartGood, ChangedTo, Settles
      <4>3. q.status = "pending-confirmation" => q.tool = Permission
        BY <2>5, <3>1, <3>4 DEF ChangedTo, Settles, Fits
      <4>4. q.status # "streaming"
        <5>1. CASE a.type = "toolCallReady"
          BY <2>5, <3>4, <5>1 DEF ChangedTo
        <5>2. CASE a.type = "toolCallConfirmed"
          BY <2>5, <3>4, <5>2 DEF ChangedTo
        <5>3. CASE a.type = "toolCallComplete"
          BY <2>5, <3>4, <5>3 DEF ChangedTo, Fits
        <5> QED BY <3>4, <5>1, <5>2, <5>3 DEF Settles
      <4> QED BY <2>5, <3>1, <4>2, <4>3, <4>4 DEF PartGood
    <3> QED BY <2>5, <3>2, <3>3, <3>4 DEF ChangedTo
  <2>6. \A i \in DOMAIN r.parts : PartGood(r.parts[i], r.id, n, Permission, asked)
    BY <1>3, <1>4, <2>1, <2>5
  <2> QED BY <1>1, <1>6, <2>3, <2>4, <2>6 DEF TurnGood, Adds
<1> QED BY <1>5, <1>6

\* ... and at its end.
LEMMA EndedGood ==
  ASSUME NEW t \in TurnT, NEW f, NEW n, NEW perm, NEW asked, TurnGood(t, n, perm, asked)
  PROVE  /\ TurnGood(Ended(t, f), n, perm, asked)
         /\ \A k : HasCall(Ended(t, f), k) <=> HasCall(t, k)
<1>1. PICK r : r = Ended(t, f)
  OBVIOUS
<1>2. EndedTo(r, t, f)
  BY <1>1, EndedIs
<1>3. /\ \A i \in DOMAIN t.parts : t.parts[i] \in PartT
      /\ \A i \in DOMAIN t.parts : PartGood(t.parts[i], t.id, n, perm, asked)
      /\ OneText(t) /\ OneCall(t) /\ r.id = t.id /\ DOMAIN r.parts = DOMAIN t.parts
  BY <1>2, PartsOf DEF TurnGood, EndedTo
<1>4. ASSUME NEW p \in PartT, NEW q, PartGood(p, t.id, n, perm, asked),
             q = p \/ (q = [p EXCEPT !.status = "cancelled"] /\ p.kind = "tool")
      PROVE  PartGood(q, t.id, n, perm, asked) /\ q.kind = p.kind /\ q.tool = p.tool
  <2>1. CASE q = p
    BY <1>4, <2>1
  <2>2. CASE q = [p EXCEPT !.status = "cancelled"] /\ p.kind = "tool"
    <3>1. q.kind = p.kind /\ q.tool = p.tool /\ q.text = p.text /\ q.status = "cancelled"
      BY <2>2 DEF PartT
    <3> QED BY <1>4, <2>2, <3>1 DEF PartGood
  <2> QED BY <1>4, <2>1, <2>2
<1>5. \A i \in DOMAIN t.parts : /\ PartGood(r.parts[i], t.id, n, perm, asked)
                                /\ r.parts[i].kind = t.parts[i].kind /\ r.parts[i].tool = t.parts[i].tool
  BY <1>2, <1>3, <1>4 DEF EndedTo
<1>6. OneText(r) /\ OneCall(r)
  BY <1>3, <1>5 DEF OneText, OneCall
<1>7. \A k : HasCall(r, k) <=> HasCall(t, k)
  BY <1>3, <1>5 DEF HasCall
<1> QED BY <1>1, <1>3, <1>5, <1>6, <1>7 DEF TurnGood

-----------------------------------------------------------------------------
\* A chat that gained or changed its active turn, or lost it to the past.
Starts0(c, d, t) == d.past = c.past /\ d.active = [id |-> t, parts |-> << >>, failed |-> FALSE]
Ends0(c, d, f) == d.past = Append(c.past, Ended(c.active, f)) /\ d.active = NoTurn
Moves0(c, d, a) == d.past = c.past /\ d.active = Reduced(c.active, a)

\* What an action makes of the chat, by its kind.
LEMMA AppliedIs ==
  ASSUME NEW c \in ChatT, NEW a \in ActionT
  PROVE  /\ a.type = "turnStarted" => Starts0(c, Applied(c, a), a.turn)
         /\ a.type # "turnStarted" /\ a.turn # c.active.id => Applied(c, a) = c
         /\ a.type # "turnStarted" /\ a.turn = c.active.id /\ Ends(a) =>
               Ends0(c, Applied(c, a), a.type = "error")
         /\ a.type # "turnStarted" /\ a.turn = c.active.id /\ ~Ends(a) => Moves0(c, Applied(c, a), a)
<1>1. c = [past |-> c.past, active |-> c.active]
  BY DEF ChatT
<1>2. ASSUME NEW x PROVE [c EXCEPT !.active = x] = [past |-> c.past, active |-> x]
  BY <1>1
<1>3. CASE a.type = "turnStarted"
  <2>1. Applied(c, a) = [c EXCEPT !.active = [NoTurn EXCEPT !.id = a.turn]]
    BY <1>3 DEF Applied
  <2>2. [NoTurn EXCEPT !.id = a.turn] = [id |-> a.turn, parts |-> << >>, failed |-> FALSE]
    <3>1. PICK x : x = NoTurn
      OBVIOUS
    <3>2. x = [id |-> 0, parts |-> << >>, failed |-> FALSE]
      BY <3>1 DEF NoTurn
    <3>3. x = [id |-> x.id, parts |-> x.parts, failed |-> x.failed]
          /\ x.parts = << >> /\ ~x.failed /\ x.failed = FALSE
      BY <3>2
    <3>4. ASSUME NEW v PROVE [x EXCEPT !.id = v] = [id |-> v, parts |-> x.parts, failed |-> x.failed]
      BY <3>3
    <3>5. [x EXCEPT !.id = a.turn] = [id |-> a.turn, parts |-> x.parts, failed |-> x.failed]
      BY <3>4
    <3> QED BY <3>1, <3>3, <3>5
  <2>3. Applied(c, a) = [past |-> c.past, active |-> [id |-> a.turn, parts |-> << >>, failed |-> FALSE]]
    BY <1>2, <2>1, <2>2
  <2> QED BY <1>3, <2>3 DEF Starts0
<1>4. CASE a.type # "turnStarted" /\ a.turn # c.active.id
  BY <1>4 DEF Applied
<1>5. CASE a.type # "turnStarted" /\ a.turn = c.active.id /\ Ends(a)
  BY <1>5 DEF Applied, Ends0
<1>6. CASE a.type # "turnStarted" /\ a.turn = c.active.id /\ ~Ends(a)
  <2>1. Applied(c, a) = [c EXCEPT !.active = Reduced(c.active, a)]
    BY <1>6 DEF Applied
  <2> QED BY <1>2, <1>6, <2>1 DEF Moves0
<1> QED BY <1>3, <1>4, <1>5, <1>6

\* The types of a chat's turns.
LEMMA ChatParts ==
  ASSUME NEW c \in ChatT
  PROVE  /\ c.past \in Seq(TurnT) /\ c.active \in TurnT
         /\ \A i \in DOMAIN c.past : c.past[i] \in TurnT
         /\ \E l \in Nat : l = Len(c.past) /\ DOMAIN c.past = 1..l
         /\ \A t \in TurnSet(c) : t \in TurnT
         /\ \A t : t \in TurnSet(c) <=> (\E i \in DOMAIN c.past : t = c.past[i]) \/ (c.active.id # 0 /\ t = c.active)
<1>1. c.past \in Seq(TurnT) /\ c.active \in TurnT
  BY DEF ChatT
<1>2. Len(c.past) \in Nat /\ DOMAIN c.past = 1..Len(c.past) /\ \A i \in DOMAIN c.past : c.past[i] \in TurnT
  BY <1>1, LenProperties, ElementOfSeq
<1>3. \A t : t \in TurnSet(c) <=> (\E i \in DOMAIN c.past : t = c.past[i]) \/ (c.active.id # 0 /\ t = c.active)
  BY DEF TurnSet
<1> QED BY <1>1, <1>2, <1>3

\* What the action may be when the chat is c.
Taken0(a, c, m, n, perm, asked) ==
  /\ a.turn \in 1..m
  /\ a.type = "turnStarted" => a.turn \notin Ids(c)
  /\ a.turn = c.active.id => Fits(a, c.active, n, perm, asked)
  /\ a.turn = c.active.id /\ a.type = "toolCallStart" => \A t \in TurnSet(c) : ~HasCall(t, a.tool)

\* The chat stays right when a turn starts ...
LEMMA StartedGood ==
  ASSUME NEW c \in ChatT, NEW d \in ChatT, NEW m \in Nat, NEW n \in Nat, NEW perm, NEW asked,
         ChatGood(c, m, n, perm, asked), NEW t \in 1..m, t \notin Ids(c), Starts0(c, d, t)
  PROVE  ChatGood(d, m, n, perm, asked)
<1>1. d.past = c.past /\ d.active = [id |-> t, parts |-> << >>, failed |-> FALSE]
      /\ d.active.id = t /\ d.active.parts = << >> /\ ~d.active.failed /\ t # 0
  BY DEF Starts0
<1>2. \A u \in TurnSet(d) : u = d.active \/ (u \in TurnSet(c) /\ \E i \in DOMAIN c.past : u = c.past[i])
  BY <1>1, ChatParts
<1>3. \A k : ~HasCall(d.active, k)
  BY <1>1 DEF HasCall
<1>4. TurnGood(d.active, n, perm, asked)
  BY <1>1 DEF TurnGood, OneText, OneCall
<1>5. \A u \in TurnSet(d) : u.id \in 1..m /\ TurnGood(u, n, perm, asked)
  BY <1>1, <1>2, <1>4 DEF ChatGood
<1>6. Apart(d, n)
  BY <1>2, <1>3 DEF Apart, ChatGood
<1>7. \A i \in DOMAIN c.past : c.past[i].id # t
  BY ChatParts DEF Ids
<1>8. Named(d) /\ Resting(d)
  BY <1>1, <1>7 DEF Named, Resting, ChatGood
<1> QED BY <1>5, <1>6, <1>8 DEF ChatGood

\* ... when its active turn changes ...
LEMMA MovedGood ==
  ASSUME NEW c \in ChatT, NEW d \in ChatT, NEW a \in ActionT, NEW m \in Nat, NEW n \in Nat, NEW asked,
         ChatGood(c, m, n, Permission, asked), Taken0(a, c, m, n, Permission, asked),
         a.turn = c.active.id, Moves0(c, d, a)
  PROVE  ChatGood(d, m, n, Permission, asked)
<1>1. d.past = c.past /\ d.active = Reduced(c.active, a) /\ a.turn # 0
  BY DEF Moves0, Taken0
<1>2. c.active \in TurnT /\ c.active \in TurnSet(c) /\ TurnGood(c.active, n, Permission, asked)
      /\ Fits(a, c.active, n, Permission, asked)
  BY <1>1, ChatParts DEF Taken0, ChatGood
<1>3. /\ TurnGood(d.active, n, Permission, asked)
      /\ \A k : HasCall(d.active, k) <=> HasCall(c.active, k) \/ (a.type = "toolCallStart" /\ k = a.tool)
  BY <1>1, <1>2, ReducedGood
<1>4. d.active.id = c.active.id /\ d.active.failed = c.active.failed
  BY <1>1, <1>2, ReducedIs DEF ReducedTo
<1>5. \A u \in TurnSet(d) : u = d.active \/ (u \in TurnSet(c) /\ \E i \in DOMAIN c.past : u = c.past[i])
  BY <1>1, ChatParts
<1>6. \A u \in TurnSet(d) : u.id \in 1..m /\ TurnGood(u, n, Permission, asked)
  BY <1>2, <1>3, <1>4, <1>5 DEF ChatGood
<1>7. Apart(d, n)
  <2>1. ASSUME NEW u \in TurnSet(c), NEW k \in 1..n, HasCall(d.active, k), HasCall(u, k)
        PROVE  u.id = d.active.id
    BY <1>2, <1>3, <1>4, <2>1 DEF Apart, ChatGood, Taken0
  <2>2. ASSUME NEW t \in TurnSet(d), NEW u \in TurnSet(d), NEW k \in 1..n, HasCall(t, k), HasCall(u, k)
        PROVE  t.id = u.id
    BY <1>5, <2>1, <2>2 DEF Apart, ChatGood
  <2> QED BY <2>2 DEF Apart
<1>8. Named(d) /\ Resting(d)
  BY <1>1, <1>4 DEF Named, Resting, ChatGood, Taken0
<1> QED BY <1>6, <1>7, <1>8 DEF ChatGood

\* ... when it ends ...
LEMMA EndGood ==
  ASSUME NEW c \in ChatT, NEW d \in ChatT, NEW m \in Nat, NEW n \in Nat, NEW perm, NEW asked,
         ChatGood(c, m, n, perm, asked), NEW f \in BOOLEAN, c.active.id # 0, Ends0(c, d, f)
  PROVE  ChatGood(d, m, n, perm, asked)
<1>1. PICK e \in TurnT : e = Ended(c.active, f)
  BY ChatParts, EndedType
<1>2. d.past = Append(c.past, e) /\ d.active = NoTurn /\ d.active.id = 0 /\ ~d.active.failed
  BY <1>1 DEF Ends0, NoTurn
<1>3. c.active \in TurnT /\ c.active \in TurnSet(c) /\ TurnGood(c.active, n, perm, asked)
  BY ChatParts DEF ChatGood
<1>4. /\ TurnGood(e, n, perm, asked) /\ \A k : HasCall(e, k) <=> HasCall(c.active, k)
  BY <1>1, <1>3, EndedGood
<1>5. e.id = c.active.id
  BY <1>1, <1>3, EndedIs DEF EndedTo
<1>6. AddedTo(d.past, c.past, e)
  BY <1>2, ChatParts, AppendAdds
<1>7. PICK l \in Nat : /\ DOMAIN c.past = 1..l /\ DOMAIN d.past = 1..l+1 /\ d.past[l+1] = e
                       /\ \A i \in 1..l : d.past[i] = c.past[i]
  BY <1>6 DEF AddedTo
<1>8. \A i \in DOMAIN d.past : i \in 1..l \/ i = l + 1
  BY <1>7
<1>9. \A u \in TurnSet(d) : u = e \/ (u \in TurnSet(c) /\ \E i \in DOMAIN c.past : u = c.past[i])
  BY <1>2, <1>7, <1>8, ChatParts
<1>10. \A u \in TurnSet(d) : u.id \in 1..m /\ TurnGood(u, n, perm, asked)
  BY <1>3, <1>4, <1>5, <1>9 DEF ChatGood
<1>11. Apart(d, n)
  <2>2. ASSUME NEW t \in TurnSet(d), NEW u \in TurnSet(d), NEW k \in 1..n, HasCall(t, k), HasCall(u, k)
        PROVE  t.id = u.id
    BY <1>3, <1>4, <1>5, <1>9, <2>2 DEF Apart, ChatGood
  <2> QED BY <2>2 DEF Apart
<1>12. \A i \in DOMAIN c.past : c.past[i].id # e.id
  BY <1>5 DEF Named, ChatGood
<1>13. \A i \in DOMAIN d.past : d.past[i].id # 0
  <2>1. \A i \in DOMAIN c.past : c.past[i].id \in 1..m
    BY ChatParts DEF ChatGood
  <2> QED BY <1>5, <1>7, <1>8, <2>1
<1>14. Named(d)
  <2>1. \A i, j \in DOMAIN d.past : d.past[i].id = d.past[j].id => i = j
    BY <1>7, <1>8, <1>12 DEF Named, ChatGood
  <2> QED BY <1>2, <1>13, <2>1 DEF Named
<1>15. Resting(d)
  BY <1>2 DEF Resting
<1> QED BY <1>10, <1>11, <1>14, <1>15 DEF ChatGood

\* ... and so under every action that fits it.
LEMMA AppliedGood ==
  ASSUME NEW c \in ChatT, NEW a \in ActionT, NEW m \in Nat, NEW n \in Nat, NEW asked,
         ChatGood(c, m, n, Permission, asked), Taken0(a, c, m, n, Permission, asked)
  PROVE  ChatGood(Applied(c, a), m, n, Permission, asked)
<1>1. PICK d \in ChatT : d = Applied(c, a)
  BY AppliedType
<1>2. CASE a.type = "turnStarted"
  BY <1>1, <1>2, AppliedIs, StartedGood DEF Taken0
<1>3. CASE a.type # "turnStarted" /\ a.turn # c.active.id
  BY <1>1, <1>3, AppliedIs
<1>4. CASE a.type # "turnStarted" /\ a.turn = c.active.id /\ Ends(a)
  <2>1. PICK f \in BOOLEAN : f = (a.type = "error")
    OBVIOUS
  <2>2. c.active.id # 0
    BY <1>4 DEF Taken0
  <2> QED BY <1>1, <1>4, <2>1, <2>2, AppliedIs, EndGood
<1>5. CASE a.type # "turnStarted" /\ a.turn = c.active.id /\ ~Ends(a)
  BY <1>1, <1>5, AppliedIs, MovedGood
<1> QED BY <1>1, <1>2, <1>3, <1>4, <1>5

-----------------------------------------------------------------------------
\* Who sends what.
SentBy(f, perm, asked) ==
  LET a == f.msg IN
  /\ f.from = "ask" => a.type \in {"toolCallStart", "toolCallReady"} /\ a.turn = asked
  /\ a.type \in {"responsePart", "delta", "toolCallComplete", "turnComplete", "error"} => f.from = "agent"
  /\ a.type \in {"turnStarted", "turnCancelled", "toolCallConfirmed", "snapshot"} => f.from = "reader"
  /\ a.type \in {"toolCallStart", "toolCallReady", "toolCallComplete"} => (f.from = "ask" <=> a.tool = perm)
  /\ a.type \in {"toolCallStart", "toolCallReady"} => f.from # "reader"
  /\ a.type = "toolCallConfirmed" => a.tool = perm /\ a.turn = asked

\* What a message says.
Says(a, m, n, perm) ==
  /\ a.type = "snapshot" => a.turn = 0
  /\ a.type # "snapshot" => a.turn \in 1..m
  /\ a.type # "delta" => a.text = << >>
  /\ a.type \in Settles \cup {"toolCallStart"} => a.tool \in 1..n
  /\ a.type = "toolCallReady" => a.note \in {"command", "opaque"} /\ (a.tool = perm => a.note = "command")
  /\ a.type = "toolCallComplete" => a.note \in {"completed", "failed"}

\* A call of the turn in that state.
CallIn(t, k, status) == \E i \in DOMAIN t.parts : /\ t.parts[i].kind = "tool" /\ t.parts[i].tool = k
                                                  /\ t.parts[i].status = status

\* How it meets the chat it was made from.
Meets(a, c, perm) ==
  /\ a.type = "turnStarted" => a.turn \notin Ids(c)
  /\ a.turn = c.active.id /\ a.type # "snapshot" =>
      /\ a.type = "responsePart" => ~HasText(c.active)
      /\ a.type = "delta" => HasText(c.active)
      /\ a.type = "toolCallStart" => \A t \in TurnSet(c) : ~HasCall(t, a.tool)
      /\ a.type \in {"toolCallReady", "toolCallConfirmed"} => HasCall(c.active, a.tool)
      /\ a.type = "toolCallReady" /\ a.tool # perm => CallIn(c.active, a.tool, "streaming")
      /\ a.type = "toolCallComplete" => CallIn(c.active, a.tool, "running")

\* The history a message carries is that of the chat it was made from.
IsOdd(f) == f.odd = (f.msg.type # "snapshot" /\
              IF f.msg.type = "turnStarted" THEN f.was.active.id # 0 ELSE f.msg.turn # f.was.active.id)

\* A message: by whom it was sent, what it says, of which chat.
MessageGood(f, m, n, perm, asked) ==
  SentBy(f, perm, asked) /\ Says(f.msg, m, n, perm) /\ Meets(f.msg, f.was, perm) /\ IsOdd(f)

\* A message on its way and the chat it was made from.
WasGood(f, m, n, perm, asked) == ChatGood(f.was, m, n, perm, asked) /\ MessageGood(f, m, n, perm, asked)

\* The chat, and everything on its way to the window.
HostGood ==
  /\ ChatGood(chat, count.turn, count.tool, Permission, ask.turn)
  /\ \A k \in DOMAIN flight : WasGood(flight[k], count.turn, count.tool, Permission, ask.turn)

\* A message on its way could be applied to the chat it was made from.
LEMMA ActionGood ==
  ASSUME NEW f \in EntryT, NEW m \in Nat, NEW n \in Nat, NEW perm, NEW asked,
         WasGood(f, m, n, perm, asked), f.msg.type # "snapshot"
  PROVE  Taken0(f.msg, f.was, m, n, perm, asked)
<1>1. /\ Says(f.msg, m, n, perm) /\ Meets(f.msg, f.was, perm) /\ SentBy(f, perm, asked)
      /\ f.was \in ChatT /\ f.msg.type \in Types
  BY DEF WasGood, MessageGood, EntryT, ActionT
<1>2. f.msg.turn \in 1..m
  BY <1>1 DEF Says
<1>3. f.was.active.id # 0 => f.was.active \in TurnSet(f.was)
  BY DEF TurnSet
<1>4. f.msg.type = "toolCallStart" /\ f.msg.tool = perm => f.msg.turn = asked
  BY <1>1 DEF SentBy
<1>5. f.msg.turn = f.was.active.id => Fits(f.msg, f.was.active, n, perm, asked)
  <2> SUFFICES ASSUME f.msg.turn = f.was.active.id PROVE Fits(f.msg, f.was.active, n, perm, asked)
    OBVIOUS
  <2>1. f.msg.type = "responsePart" => ~HasText(f.was.active)
    BY <1>1 DEF Meets
  <2>2. f.msg.type \in Settles \cup {"toolCallStart"} => f.msg.tool \in 1..n
    BY <1>1 DEF Says
  <2>3. f.msg.type = "toolCallStart" => ~HasCall(f.was.active, f.msg.tool)
    BY <1>1, <1>2, <1>3 DEF Meets
  <2>4. f.msg.type = "toolCallComplete" => f.msg.note \in {"completed", "failed"}
    BY <1>1 DEF Says
  <2> QED BY <1>4, <2>1, <2>2, <2>3, <2>4 DEF Fits
<1> QED BY <1>1, <1>2, <1>5 DEF Taken0, Meets

\* More turns and calls are numbered; the request is registered once.
More(m, n, p, q, m2, n2, p2, q2) ==
  /\ m \in Nat /\ n \in Nat /\ m2 \in Nat /\ n2 \in Nat /\ m <= m2 /\ n <= n2
  /\ (p2 = p /\ q2 = q) \/ (p = 0 /\ p2 \in Nat /\ n < p2)

\* What is right stays right when more is numbered: a turn ...
LEMMA TurnMore ==
  ASSUME NEW t \in TurnT, NEW m, NEW n, NEW p, NEW q, NEW m2, NEW n2, NEW p2, NEW q2,
         More(m, n, p, q, m2, n2, p2, q2), TurnGood(t, n, p, q)
  PROVE  TurnGood(t, n2, p2, q2)
<1>1. ASSUME NEW x \in PartT, PartGood(x, t.id, n, p, q)
      PROVE  PartGood(x, t.id, n2, p2, q2)
  <2>1. x.kind \in {"text", "tool"} /\ x.tool \in Nat
    BY DEF PartT
  <2>2. CASE x.kind = "tool"
    <3>0. x.tool \in 1..n /\ x.text = << >>
      BY <1>1, <2>2 DEF PartGood
    <3>1. x.tool \in 1..n /\ x.tool \in 1..n2 /\ x.text = << >>
      BY <3>0 DEF More
    <3>2. x.tool = p2 => x.tool = p /\ q2 = q
      BY <3>1 DEF More
    <3>3. x.status = "pending-confirmation" => x.tool = p /\ p = p2
      BY <1>1, <3>1 DEF PartGood, More
    <3>4. (x.status = "streaming" => x.input = "") /\ (x.tool = p => t.id = q)
      BY <1>1, <2>2 DEF PartGood
    <3> QED BY <2>2, <3>1, <3>2, <3>3, <3>4 DEF PartGood
  <2>3. CASE x.kind = "text"
    BY <1>1, <2>3 DEF PartGood
  <2> QED BY <2>1, <2>2, <2>3
<1>2. \A i \in DOMAIN t.parts : PartGood(t.parts[i], t.id, n2, p2, q2)
  BY <1>1, PartsOf DEF TurnGood
<1> QED BY <1>2 DEF TurnGood

\* ... a chat ...
LEMMA ChatMore ==
  ASSUME NEW c \in ChatT, NEW m, NEW n, NEW p, NEW q, NEW m2, NEW n2, NEW p2, NEW q2,
         More(m, n, p, q, m2, n2, p2, q2), ChatGood(c, m, n, p, q)
  PROVE  ChatGood(c, m2, n2, p2, q2)
<1>1. \A t \in TurnSet(c) : t.id \in 1..m2
  BY DEF ChatGood, More
<1>2. \A t \in TurnSet(c) : TurnGood(t, n2, p2, q2)
  BY ChatParts, TurnMore DEF ChatGood
<1>3. Apart(c, n2)
  <2>1. ASSUME NEW t \in TurnSet(c), NEW k, HasCall(t, k)
        PROVE  k \in 1..n
    BY <2>1 DEF HasCall, ChatGood, TurnGood, PartGood
  <2> QED BY <2>1 DEF Apart, ChatGood
<1> QED BY <1>1, <1>2, <1>3 DEF ChatGood

\* ... a message on its way.
LEMMA WasMore ==
  ASSUME NEW f \in EntryT, NEW m, NEW n, NEW p, NEW q, NEW m2, NEW n2, NEW p2, NEW q2,
         More(m, n, p, q, m2, n2, p2, q2), WasGood(f, m, n, p, q)
  PROVE  WasGood(f, m2, n2, p2, q2)
<1>1. f.was \in ChatT /\ f.msg.type \in Types /\ f.from \in {"agent", "ask", "reader"}
      /\ f.msg.tool \in Nat
  BY DEF EntryT, ActionT
<1>2. ChatGood(f.was, m2, n2, p2, q2)
  BY <1>1, ChatMore DEF WasGood
<1>3. SentBy(f, p, q) /\ Says(f.msg, m, n, p) /\ Meets(f.msg, f.was, p) /\ IsOdd(f)
  BY DEF WasGood, MessageGood
<1>4. f.msg.type \in Settles \cup {"toolCallStart"} => f.msg.tool \in 1..n
  BY <1>3 DEF Says
<1>5. CASE p2 = p /\ q2 = q
  <2>1. Says(f.msg, m2, n2, p2)
    BY <1>3, <1>5 DEF Says, More
  <2> QED BY <1>2, <1>3, <1>5, <2>1 DEF WasGood, MessageGood
<1>6. CASE p = 0 /\ p2 \in Nat /\ n < p2
  <2>1. f.msg.type \in Settles \cup {"toolCallStart"} => f.msg.tool # p /\ f.msg.tool # p2
    BY <1>4, <1>6 DEF More
  <2>2. f.msg.type # "toolCallConfirmed" /\ f.from # "ask"
    BY <1>3, <2>1 DEF SentBy, Settles
  <2>3. SentBy(f, p2, q2)
    BY <1>3, <2>1, <2>2 DEF SentBy, Settles
  <2>4. Says(f.msg, m2, n2, p2)
    BY <1>3, <2>1 DEF Says, More, Settles
  <2>5. Meets(f.msg, f.was, p2)
    BY <1>3, <2>1 DEF Meets, Settles
  <2> QED BY <1>2, <1>3, <2>3, <2>4, <2>5 DEF WasGood, MessageGood
<1> QED BY <1>5, <1>6 DEF More

-----------------------------------------------------------------------------
\* The fields of new parts ...
LEMMA PartFacts ==
  /\ TextPart.kind = "text" /\ TextPart.tool = 0 /\ TextPart.text = << >> /\ TextPart.status = ""
  /\ \A k : /\ ToolPart(k).kind = "tool" /\ ToolPart(k).tool = k /\ ToolPart(k).text = << >>
            /\ ToolPart(k).status = "streaming" /\ ToolPart(k).input = ""
  BY DEF TextPart, ToolPart

\* ... and of a turn that starts.
LEMMA StartFacts ==
  ASSUME NEW c, NEW d, NEW t, Starts0(c, d, t)
  PROVE  d.past = c.past /\ d.active.id = t /\ d.active.parts = << >> /\ ~d.active.failed
  BY DEF Starts0

\* What is on its way after a message was sent or was not.
FlightAfter(e, a) == \/ flight' = flight
                     \/ AddedTo(flight', flight, Entry(e, a))

\* What emitTypedAction does: the chat changes, a subscribed window is told.
LEMMA EmitIs ==
  ASSUME TypesRight, NEW e \in {"agent", "ask", "reader"}, NEW a \in ActionT, Emit(e, a)
  PROVE  /\ FlightAfter(e, a) /\ chat' = Applied(chat, a) /\ chat' \in ChatT
         /\ ~subscribed => flight' = flight
         /\ subscribed => AddedTo(flight', flight, Entry(e, a))
<1>1. flight \in Seq(EntryT) /\ HostT /\ chat \in ChatT
  BY DEF TypesRight, NetT, HostT
<1>2. Entry(e, a) \in EntryT
  BY <1>1, EntryType
<1>3. CASE subscribed
  <2>1. flight' = Append(flight, Entry(e, a))
    BY <1>3, SendIs DEF Emit
  <2> QED BY <1>1, <1>2, <1>3, <2>1, AppendAdds, AppliedType DEF FlightAfter, Emit
<1>4. CASE ~subscribed
  BY <1>1, <1>4, AppliedType DEF Emit, FlightAfter
<1> QED BY <1>3, <1>4

\* The types of what is on its way, and of the numbers.
LEMMA FlightEntries ==
  ASSUME TypesRight
  PROVE  /\ flight \in Seq(EntryT) /\ Len(flight) \in Nat /\ DOMAIN flight = 1..Len(flight)
         /\ \A k \in DOMAIN flight : flight[k] \in EntryT
         /\ chat \in ChatT /\ count.turn \in Nat /\ count.tool \in Nat /\ Permission \in Nat
         /\ ask.turn \in Nat /\ agent.turn \in Nat /\ agent.tool \in Nat
<1>1. flight \in Seq(EntryT) /\ HostT /\ SdkT /\ chat \in ChatT
  BY DEF TypesRight, NetT, HostT
<1> QED BY <1>1, LenProperties, ElementOfSeq, ActiveType, SdkType

\* The numbers of a step and the request it knows.
Grows(m, n, p, q) ==
  More(count.turn, count.tool, Permission, ask.turn, m, n, p, q)

\* More numbers leave the chat and the messages right.
LEMMA HostMore ==
  ASSUME TypesRight, HostGood, NEW m, NEW n, NEW p, NEW q, Grows(m, n, p, q)
  PROVE  /\ ChatGood(chat, m, n, p, q)
         /\ \A k \in DOMAIN flight : WasGood(flight[k], m, n, p, q)
<1>1. ChatGood(chat, m, n, p, q)
  BY ChatMore, FlightEntries DEF Grows, HostGood
<1>2. ASSUME NEW k \in DOMAIN flight PROVE WasGood(flight[k], m, n, p, q)
  <2>1. PICK f \in EntryT : f = flight[k]
    BY FlightEntries
  <2>2. WasGood(f, count.turn, count.tool, Permission, ask.turn)
    BY <2>1 DEF HostGood
  <2>3. WasGood(f, m, n, p, q)
    BY <2>2, WasMore DEF Grows
  <2> QED BY <2>1, <2>3
<1> QED BY <1>1, <1>2

\* An action that fits keeps the chat and the messages right.
LEMMA EmitGood ==
  ASSUME TypesRight, HostGood, NEW e \in {"agent", "ask", "reader"}, NEW a \in ActionT, Emit(e, a),
         a.type # "snapshot", Grows(count'.turn, count'.tool, Permission, ask.turn),
         ask'.tool = ask.tool, ask'.turn = ask.turn,
         MessageGood(Entry(e, a), count'.turn, count'.tool, Permission, ask.turn)
  PROVE  HostGood'
<1>1. PICK m \in Nat, n \in Nat : m = count'.turn /\ n = count'.tool
  BY DEF Grows, More
<1>2. PICK q \in Nat : q = ask.turn
  BY FlightEntries
<1>3. /\ ChatGood(chat, m, n, Permission, q)
      /\ \A k \in DOMAIN flight : WasGood(flight[k], m, n, Permission, q)
  BY <1>1, <1>2, HostMore
<1>4. PICK f \in EntryT : f = Entry(e, a)
  BY EntryType DEF TypesRight
<1>5. f.was = chat /\ f.msg = a /\ chat \in ChatT
  BY <1>4, FlightEntries DEF Entry
<1>6. WasGood(f, m, n, Permission, q)
  BY <1>1, <1>2, <1>3, <1>4, <1>5 DEF WasGood
<1>7. Taken0(a, chat, m, n, Permission, q)
  BY <1>5, <1>6, ActionGood
<1>8. ChatGood(Applied(chat, a), m, n, Permission, q)
  BY <1>3, <1>5, <1>7, AppliedGood
<1>9. ChatGood(chat', m, n, Permission, q)
  BY <1>8, EmitIs
<1>10. flight' = flight \/ AddedTo(flight', flight, f)
  BY <1>4, EmitIs DEF FlightAfter
<1>11. \A k \in DOMAIN flight' : WasGood(flight'[k], m, n, Permission, q)
  <2>1. CASE flight' = flight
    BY <1>3, <2>1
  <2>2. CASE AddedTo(flight', flight, f)
    <3>1. PICK l \in Nat : /\ DOMAIN flight = 1..l /\ DOMAIN flight' = 1..l+1 /\ flight'[l+1] = f
                           /\ \A i \in 1..l : flight'[i] = flight[i]
      BY <2>2 DEF AddedTo
    <3>2. \A i \in DOMAIN flight' : i \in 1..l \/ i = l + 1
      BY <3>1
    <3> QED BY <1>3, <1>6, <3>1, <3>2
  <2> QED BY <1>10, <2>1, <2>2
<1>12. Permission' = Permission
  BY DEF Permission
<1> QED BY <1>1, <1>2, <1>9, <1>11, <1>12 DEF HostGood

-----
\* What the event goroutine knows of the active turn.
AgentFits(g, t, m, n, perm) ==
  /\ g.turn \in 0..m
  /\ g.step # "idle" => g.turn # 0
  /\ g.step = "delta" /\ g.turn = t.id => HasText(t)
  /\ g.step = "toolCallReady" => /\ g.tool \in 1..n /\ g.tool # perm
                                 /\ g.turn = t.id => CallIn(t, g.tool, "streaming")

\* What the goroutine of the request knows of the chat.
AskFits(k, c, m, n) ==
  /\ k.turn \in 0..m
  /\ k.step = "idle" => k = AskIdle
  /\ k.step # "idle" => k.turn # 0 /\ k.tool \in 1..n
  /\ k.step = "toolCallStart" => \A t \in TurnSet(c) : ~HasCall(t, k.tool)
  /\ k.step \in {"toolCallReady", "waiting"} /\ k.turn = c.active.id => HasCall(c.active, k.tool)

\* Parts stay, and so do their kinds and calls.
LEMMA ReducedKeeps ==
  ASSUME NEW t \in TurnT, NEW a \in ActionT
  PROVE  LET r == Reduced(t, a) IN
         /\ r \in TurnT /\ r.id = t.id
         /\ HasText(t) => HasText(r)
         /\ a.type = "responsePart" => HasText(r)
         /\ \A k : HasCall(t, k) => HasCall(r, k)
         /\ a.type = "toolCallStart" => CallIn(r, a.tool, "streaming") /\ HasCall(r, a.tool)
         /\ \A k, s : CallIn(t, k, s) /\ ~(a.type \in Settles /\ a.tool = k) => CallIn(r, k, s)
<1>1. PICK r \in TurnT : r = Reduced(t, a)
  BY ReducedType
<1>2. ReducedTo(r, t, a)
  BY <1>1, ReducedIs
<1>3. /\ t.parts \in Seq(PartT) /\ \A i \in DOMAIN t.parts : t.parts[i] \in PartT
  BY PartsOf
<1>4. CASE a.type \in Adds
  <2>1. PICK x \in PartT : /\ r.parts = Append(t.parts, x)
                           /\ \/ a.type = "responsePart" /\ x = TextPart
                              \/ a.type = "toolCallStart" /\ x = ToolPart(a.tool)
    BY <1>2, <1>4, PartTypes DEF ReducedTo, Adds, ActionT
  <2>2. AddedTo(r.parts, t.parts, x)
    BY <1>3, <2>1, AppendAdds
  <2>3. PICK l \in Nat : /\ DOMAIN t.parts = 1..l /\ DOMAIN r.parts = 1..l+1 /\ r.parts[l+1] = x
                         /\ \A i \in 1..l : r.parts[i] = t.parts[i]
    BY <2>2 DEF AddedTo
  <2>4. l + 1 \in DOMAIN r.parts /\ \A i \in DOMAIN t.parts : i \in DOMAIN r.parts /\ r.parts[i] = t.parts[i]
    BY <2>3
  <2>5. a.type = "responsePart" => x.kind = "text"
    BY <2>1, PartFacts
  <2>6. a.type = "toolCallStart" => x.kind = "tool" /\ x.tool = a.tool /\ x.status = "streaming"
    BY <2>1, PartFacts
  <2>7. a.type = "responsePart" => HasText(r)
    BY <2>3, <2>4, <2>5 DEF HasText
  <2>8. a.type = "toolCallStart" => CallIn(r, a.tool, "streaming") /\ HasCall(r, a.tool)
    BY <2>3, <2>4, <2>6 DEF CallIn, HasCall
  <2>9. HasText(t) => HasText(r)
    BY <2>4 DEF HasText
  <2>10. \A k : HasCall(t, k) => HasCall(r, k)
    BY <2>4 DEF HasCall
  <2>11. \A k, s : CallIn(t, k, s) => CallIn(r, k, s)
    BY <2>4 DEF CallIn
  <2> QED BY <1>1, <1>2, <2>7, <2>8, <2>9, <2>10, <2>11 DEF ReducedTo
<1>5. CASE a.type \notin Adds
  <2>1. DOMAIN r.parts = DOMAIN t.parts /\ \A i \in DOMAIN t.parts : ChangedTo(r.parts[i], t.parts[i], a)
    BY <1>2, <1>3, <1>5, ChangedIs DEF ReducedTo
  <2>2. \A i \in DOMAIN t.parts : r.parts[i].kind = t.parts[i].kind /\ r.parts[i].tool = t.parts[i].tool
    BY <2>1 DEF ChangedTo
  <2>3. \A i \in DOMAIN t.parts : ~(a.type \in Settles /\ a.tool = t.parts[i].tool) =>
             r.parts[i].status = t.parts[i].status
    BY <2>1 DEF ChangedTo
  <2>4. HasText(t) => HasText(r)
    BY <2>1, <2>2 DEF HasText
  <2>5. \A k : HasCall(t, k) => HasCall(r, k)
    BY <2>1, <2>2 DEF HasCall
  <2>6. \A k, s : CallIn(t, k, s) /\ ~(a.type \in Settles /\ a.tool = k) => CallIn(r, k, s)
    BY <2>1, <2>2, <2>3 DEF CallIn
  <2> QED BY <1>1, <1>2, <1>5, <2>4, <2>5, <2>6 DEF ReducedTo, Adds
<1> QED BY <1>4, <1>5

\* The active turn after an action: the same one, none, or the one the action starts.
LEMMA ActiveAfter ==
  ASSUME NEW c \in ChatT, NEW a \in ActionT
  PROVE  LET d == Applied(c, a) IN
         \/ a.type = "turnStarted" /\ d.active.id = a.turn
         \/ a.type # "turnStarted" /\ d.active = c.active /\ (a.turn # c.active.id)
         \/ a.type # "turnStarted" /\ a.turn = c.active.id /\ ~Ends(a) /\ d.active = Reduced(c.active, a)
         \/ a.type # "turnStarted" /\ a.turn = c.active.id /\ Ends(a) /\ d.active.id = 0
<1>1. PICK d : d = Applied(c, a)
  OBVIOUS
<1>2. a.type = "turnStarted" => d.active.id = a.turn
  BY <1>1, AppliedIs, StartFacts
<1>3. Ends0(c, d, a.type = "error") => d.active.id = 0
  BY DEF Ends0, NoTurn
<1> QED BY <1>1, <1>2, <1>3, AppliedIs DEF Moves0

\* What the goroutine of the events knows stays true when an action is applied.
LEMMA AgentKeeps ==
  ASSUME NEW c \in ChatT, NEW a \in ActionT, NEW g, NEW m, NEW n, NEW perm,
         AgentFits(g, c.active, m, n, perm),
         a.type = "turnStarted" => a.turn # g.turn,
         a.type \in Settles /\ g.step = "toolCallReady" => a.tool # g.tool
  PROVE  AgentFits(g, Applied(c, a).active, m, n, perm)
<1>1. PICK d : d = Applied(c, a)
  OBVIOUS
<1>2. c.active \in TurnT
  BY DEF ChatT
<1>3. CASE d.active = c.active
  BY <1>1, <1>3
<1>4. CASE g.step # "idle" => d.active.id # g.turn
  BY <1>1, <1>4 DEF AgentFits
<1>5. CASE d.active = Reduced(c.active, a)
  <2>1. PICK r : r = Reduced(c.active, a)
    OBVIOUS
  <2>2. /\ r.id = c.active.id /\ (HasText(c.active) => HasText(r))
        /\ \A k, s : CallIn(c.active, k, s) /\ ~(a.type \in Settles /\ a.tool = k) => CallIn(r, k, s)
    BY <1>2, <2>1, ReducedKeeps
  <2>3. AgentFits(g, r, m, n, perm)
    BY <2>2, <1>2 DEF AgentFits
  <2> QED BY <1>1, <1>5, <2>1, <2>3
<1> QED BY <1>1, <1>3, <1>4, <1>5, ActiveAfter DEF AgentFits

\* An action adds at most the call it names ...
LEMMA ReducedCalls ==
  ASSUME NEW t \in TurnT, NEW a \in ActionT, NEW k, HasCall(Reduced(t, a), k)
  PROVE  HasCall(t, k) \/ (a.type = "toolCallStart" /\ k = a.tool)
<1>1. PICK r \in TurnT : r = Reduced(t, a)
  BY ReducedType
<1>2. ReducedTo(r, t, a)
  BY <1>1, ReducedIs
<1>3. /\ t.parts \in Seq(PartT) /\ \A i \in DOMAIN t.parts : t.parts[i] \in PartT
  BY PartsOf
<1>0. PICK j \in DOMAIN r.parts : r.parts[j].kind = "tool" /\ r.parts[j].tool = k
  BY <1>1 DEF HasCall
<1>4. CASE a.type \in Adds
  <2>1. PICK x \in PartT : /\ r.parts = Append(t.parts, x)
                           /\ \/ a.type = "responsePart" /\ x = TextPart
                              \/ a.type = "toolCallStart" /\ x = ToolPart(a.tool)
    BY <1>2, <1>4, PartTypes DEF ReducedTo, Adds, ActionT
  <2>2. AddedTo(r.parts, t.parts, x)
    BY <1>3, <2>1, AppendAdds
  <2>3. PICK l \in Nat : /\ DOMAIN t.parts = 1..l /\ DOMAIN r.parts = 1..l+1 /\ r.parts[l+1] = x
                         /\ \A i \in 1..l : r.parts[i] = t.parts[i]
    BY <2>2 DEF AddedTo
  <2>4. j \in 1..l \/ j = l + 1
    BY <1>0, <2>3
  <2>5. x.kind = "tool" => a.type = "toolCallStart" /\ x.tool = a.tool
    BY <2>1, PartFacts
  <2> QED BY <1>0, <2>3, <2>4, <2>5 DEF HasCall
<1>5. CASE a.type \notin Adds
  <2>1. DOMAIN r.parts = DOMAIN t.parts /\ \A i \in DOMAIN t.parts : ChangedTo(r.parts[i], t.parts[i], a)
    BY <1>2, <1>3, <1>5, ChangedIs DEF ReducedTo
  <2>2. \A i \in DOMAIN t.parts : r.parts[i].kind = t.parts[i].kind /\ r.parts[i].tool = t.parts[i].tool
    BY <2>1 DEF ChangedTo
  <2> QED BY <1>0, <2>1, <2>2 DEF HasCall
<1> QED BY <1>4, <1>5

\* ... and the end of a turn none.
LEMMA EndedCalls ==
  ASSUME NEW t \in TurnT, NEW f, NEW k
  PROVE  HasCall(Ended(t, f), k) <=> HasCall(t, k)
<1>1. PICK r : r = Ended(t, f)
  OBVIOUS
<1>2. EndedTo(r, t, f) /\ \A i \in DOMAIN t.parts : t.parts[i] \in PartT
  BY <1>1, EndedIs, PartsOf
<1>3. ASSUME NEW p \in PartT, NEW q, q = p \/ q = [p EXCEPT !.status = "cancelled"]
      PROVE  q.kind = p.kind /\ q.tool = p.tool
  BY <1>3 DEF PartT
<1>4. DOMAIN r.parts = DOMAIN t.parts
      /\ \A i \in DOMAIN t.parts : r.parts[i].kind = t.parts[i].kind /\ r.parts[i].tool = t.parts[i].tool
  BY <1>2, <1>3 DEF EndedTo
<1> QED BY <1>1, <1>4 DEF HasCall

\* Where the turns of the chat come from.
TurnAfter(t, c, a) ==
  \/ t \in TurnSet(c)
  \/ a.type = "turnStarted" /\ t.id = a.turn /\ t.parts = << >>
  \/ /\ a.turn = c.active.id /\ c.active \in TurnSet(c) /\ a.type # "turnStarted"
     /\ \/ t = Reduced(c.active, a) /\ ~Ends(a)
        \/ t = Ended(c.active, a.type = "error") /\ Ends(a)

\* The turns after an action are those before, the one it starts, the one it changes.
LEMMA TurnsAfter ==
  ASSUME NEW c \in ChatT, NEW a \in ActionT, a.turn # 0, NEW t \in TurnSet(Applied(c, a))
  PROVE  TurnAfter(t, c, a)
<1>1. PICK d \in ChatT : d = Applied(c, a)
  BY AppliedType
<1>0. t \in TurnSet(d) /\ ((\E i \in DOMAIN d.past : t = d.past[i]) \/ (d.active.id # 0 /\ t = d.active))
  BY <1>1, ChatParts
<1>2. CASE a.type = "turnStarted"
  <2>1. d.past = c.past /\ d.active = [id |-> a.turn, parts |-> << >>, failed |-> FALSE]
    BY <1>1, <1>2, AppliedIs DEF Starts0
  <2>2. d.active.id = a.turn /\ d.active.parts = << >>
    BY <2>1
  <2> QED BY <1>0, <1>2, <2>1, <2>2, ChatParts DEF TurnAfter
<1>3. CASE a.type # "turnStarted" /\ a.turn # c.active.id
  BY <1>0, <1>1, <1>3, AppliedIs DEF TurnAfter
<1>4. CASE a.type # "turnStarted" /\ a.turn = c.active.id /\ Ends(a)
  <2>1. c.active \in TurnSet(c) /\ c.active \in TurnT /\ c.past \in Seq(TurnT)
    BY <1>4, ChatParts
  <2>2. PICK e \in TurnT : e = Ended(c.active, a.type = "error")
    BY <2>1, EndedType
  <2>3. d.past = Append(c.past, e) /\ d.active = NoTurn /\ d.active.id = 0
    BY <1>1, <1>4, <2>2, AppliedIs DEF Ends0, NoTurn
  <2>4. AddedTo(d.past, c.past, e)
    BY <2>1, <2>2, <2>3, AppendAdds
  <2>5. PICK l \in Nat : /\ DOMAIN c.past = 1..l /\ DOMAIN d.past = 1..l+1 /\ d.past[l+1] = e
                         /\ \A i \in 1..l : d.past[i] = c.past[i]
    BY <2>4 DEF AddedTo
  <2>6. PICK i \in DOMAIN d.past : t = d.past[i]
    BY <1>0, <2>3
  <2>7. i \in 1..l \/ i = l + 1
    BY <2>5
  <2>8. t \in TurnSet(c) \/ t = e
    BY <2>5, <2>6, <2>7, ChatParts
  <2> QED BY <1>4, <2>1, <2>2, <2>8 DEF TurnAfter
<1>5. CASE a.type # "turnStarted" /\ a.turn = c.active.id /\ ~Ends(a)
  <2>1. d.past = c.past /\ d.active = Reduced(c.active, a)
    BY <1>1, <1>5, AppliedIs DEF Moves0
  <2>2. c.active \in TurnSet(c)
    BY <1>5, ChatParts
  <2> QED BY <1>0, <1>5, <2>1, <2>2, ChatParts DEF TurnAfter
<1> QED BY <1>2, <1>3, <1>4, <1>5

\* Names and calls come from the turns before or from the action.
LEMMA CallsAfter ==
  ASSUME NEW c \in ChatT, NEW a \in ActionT, a.turn # 0, NEW t \in TurnSet(Applied(c, a))
  PROVE  /\ t.id \in Ids(c) \/ (a.type = "turnStarted" /\ t.id = a.turn)
         /\ \A k : HasCall(t, k) =>
               \/ \E u \in TurnSet(c) : u.id = t.id /\ HasCall(u, k)
               \/ a.type = "toolCallStart" /\ k = a.tool /\ t.id = a.turn
<1>1. TurnAfter(t, c, a) /\ c.active \in TurnT
  BY TurnsAfter, ChatParts
<1>2. CASE t \in TurnSet(c)
  BY <1>2 DEF Ids
<1>3. CASE a.type = "turnStarted" /\ t.id = a.turn /\ t.parts = << >>
  <2>1. \A k : ~HasCall(t, k)
    BY <1>3 DEF HasCall
  <2> QED BY <1>3, <2>1
<1>4. CASE a.turn = c.active.id /\ c.active \in TurnSet(c) /\ t = Reduced(c.active, a)
  <2>1. t.id = c.active.id
    BY <1>1, <1>4, ReducedKeeps
  <2>2. \A k : HasCall(t, k) => HasCall(c.active, k) \/ (a.type = "toolCallStart" /\ k = a.tool)
    BY <1>1, <1>4, ReducedCalls
  <2> QED BY <1>4, <2>1, <2>2 DEF Ids
<1>5. CASE \E f \in BOOLEAN : a.turn = c.active.id /\ c.active \in TurnSet(c) /\ t = Ended(c.active, f)
  <2>0. PICK f \in BOOLEAN : a.turn = c.active.id /\ c.active \in TurnSet(c) /\ t = Ended(c.active, f)
    BY <1>5
  <2>1. t.id = c.active.id
    BY <1>1, <2>0, EndedIs DEF EndedTo
  <2>2. \A k : HasCall(t, k) => HasCall(c.active, k)
    BY <1>1, <2>0, EndedCalls
  <2> QED BY <2>0, <2>1, <2>2 DEF Ids
<1> QED BY <1>1, <1>2, <1>3, <1>4, <1>5 DEF TurnAfter

\* What the goroutine of the request knows stays true when an action is applied.
LEMMA RequestKeeps ==
  ASSUME NEW c \in ChatT, NEW a \in ActionT, NEW k, NEW m, NEW n,
         AskFits(k, c, m, n), a.turn # 0,
         a.type = "turnStarted" => a.turn # k.turn,
         a.type = "toolCallStart" /\ k.step = "toolCallStart" => a.tool # k.tool
  PROVE  AskFits(k, Applied(c, a), m, n)
<1>1. PICK d \in ChatT : d = Applied(c, a)
  BY AppliedType
<1>2. c.active \in TurnT
  BY DEF ChatT
<1>3. k.step \in {"toolCallReady", "waiting"} /\ k.turn = d.active.id => HasCall(d.active, k.tool)
  <2>1. CASE d.active = c.active
    BY <2>1 DEF AskFits
  <2>2. CASE k.step # "idle" => d.active.id # k.turn
    BY <2>2
  <2>3. CASE d.active = Reduced(c.active, a)
    <3>1. d.active.id = c.active.id /\ \A x : HasCall(c.active, x) => HasCall(d.active, x)
      BY <1>2, <2>3, ReducedKeeps
    <3> QED BY <3>1 DEF AskFits
  <2> QED BY <1>1, <2>1, <2>2, <2>3, ActiveAfter DEF AskFits
<1>4. ASSUME k.step = "toolCallStart", NEW t \in TurnSet(d), HasCall(t, k.tool)
      PROVE  FALSE
  <2>1. \A u \in TurnSet(c) : ~HasCall(u, k.tool)
    BY <1>4 DEF AskFits
  <2> QED BY <1>1, <1>4, <2>1, CallsAfter
<1> QED BY <1>1, <1>3, <1>4 DEF AskFits

-----------------------------------------------------------------------------
\* Where the l elements of F, a concatenation of the first m of s, come from:
\* the i-th is the o[i]-th of s[b[i]].
Origin(F, l, s, m, b, o) ==
  /\ b \in [1..l -> 1..m] /\ o \in [1..l -> Nat]
  /\ \A i \in 1..l : o[i] \in 1..Len(s[b[i]]) /\ F[i] = s[b[i]][o[i]]

\* No two come from the same place, and every place is one's origin.
Distinct(l, b, o) == \A i, j \in 1..l : b[i] = b[j] /\ o[i] = o[j] => i = j
Complete(l, s, m, b, o) == \A k \in 1..m : \A x \in 1..Len(s[k]) : \E i \in 1..l : b[i] = k /\ o[i] = x

\* The elements of a concatenation, and where each comes from.
Placed(F, l, s, m, b, o) ==
  Origin(F, l, s, m, b, o) /\ Distinct(l, b, o) /\ Complete(l, s, m, b, o)

\* One sequence more at its end.
LEMMA PlacedMore ==
  ASSUME NEW X, NEW s \in Seq(Seq(X)), NEW F \in Seq(X), NEW n \in Nat, n = Len(F),
         NEW b, NEW o, NEW m \in Nat, m + 1 \in 1..Len(s),
         Placed(F, n, s, m, b, o)
  PROVE  \E b2, o2 : Placed(F \o s[m+1], Len(F \o s[m+1]), s, m+1, b2, o2)
<1>1. s[m+1] \in Seq(X)
  BY ElementOfSeq
<1>2. PICK e \in Seq(X) : e = s[m+1]
  BY <1>1
<1>3. PICK l \in Nat : l = Len(e)
  BY LenProperties
<1>4. PICK G \in Seq(X) : G = F \o e /\ Len(G) = n + l
  BY <1>3, ConcatProperties
<1>5. \A i \in 1..n+l : G[i] = IF i <= n THEN F[i] ELSE e[i-n]
  BY <1>3, <1>4, ConcatProperties
<1>6. /\ b \in [1..n -> 1..m] /\ o \in [1..n -> Nat]
      /\ \A i \in 1..n : o[i] \in 1..Len(s[b[i]]) /\ F[i] = s[b[i]][o[i]]
  BY DEF Placed, Origin
<1> DEFINE b2 == [i \in 1..n+l |-> IF i <= n THEN b[i] ELSE m + 1]
           o2 == [i \in 1..n+l |-> IF i <= n THEN o[i] ELSE i - n]
<1>8. ASSUME NEW i \in 1..n
      PROVE  i \in 1..n+l /\ i <= n /\ b2[i] = b[i] /\ o2[i] = o[i] /\ b[i] \in 1..m /\ o[i] \in Nat
  <2>1. i \in 1..n+l /\ i <= n
    BY <1>3
  <2> QED BY <1>6, <2>1
<1>9. ASSUME NEW i \in 1..n+l, i > n
      PROVE  ~(i <= n) /\ i - n \in 1..l /\ b2[i] = m + 1 /\ o2[i] = i - n
  <2>1. ~(i <= n) /\ i - n \in 1..l
    BY <1>3, <1>9
  <2> QED BY <2>1
<1>10. ASSUME NEW i \in 1..n+l PROVE i \in 1..n \/ i > n
  BY <1>3
<1>11. Origin(G, n+l, s, m+1, b2, o2)
  <2>1. b2 \in [1..n+l -> 1..m+1]
    <3>1. ASSUME NEW i \in 1..n+l PROVE (IF i <= n THEN b[i] ELSE m + 1) \in 1..m+1
      <4>1. CASE i \in 1..n
        <5>1. b[i] \in 1..m
          BY <1>6, <4>1
        <5>2. b[i] \in 1..m+1 /\ m + 1 \in 1..m+1
          BY <5>1
        <5> QED BY <5>2
      <4>2. CASE i > n
        BY <4>2
      <4> QED BY <1>10, <4>1, <4>2
    <3> QED BY <3>1
  <2>2. o2 \in [1..n+l -> Nat]
    <3>1. ASSUME NEW i \in 1..n+l PROVE (IF i <= n THEN o[i] ELSE i - n) \in Nat
      BY <1>6, <1>10, <3>1
    <3> QED BY <3>1
  <2>3. ASSUME NEW i \in 1..n+l PROVE o2[i] \in 1..Len(s[b2[i]]) /\ G[i] = s[b2[i]][o2[i]]
    <3> HIDE DEF b2, o2
    <3>1. CASE i \in 1..n
      <4>1. b2[i] = b[i] /\ o2[i] = o[i] /\ G[i] = F[i]
        BY <1>5, <1>8, <3>1
      <4>2. o[i] \in 1..Len(s[b[i]]) /\ F[i] = s[b[i]][o[i]]
        BY <1>6, <3>1
      <4> QED BY <4>1, <4>2
    <3>2. CASE i > n
      <4>1. b2[i] = m + 1 /\ o2[i] = i - n /\ i - n \in 1..l /\ G[i] = e[i-n]
        BY <1>5, <1>9, <3>2
      <4> QED BY <1>2, <1>3, <4>1
    <3> QED BY <1>10, <3>1, <3>2
  <2> HIDE DEF b2, o2
  <2> QED BY <2>1, <2>2, <2>3 DEF Origin
<1>12. Distinct(n+l, b2, o2)
  <2> HIDE DEF b2, o2
  <2> SUFFICES ASSUME NEW i \in 1..n+l, NEW j \in 1..n+l, b2[i] = b2[j], o2[i] = o2[j] PROVE i = j
    BY DEF Distinct
  <2>1. CASE i \in 1..n /\ j \in 1..n
    <3>1. b[i] = b[j] /\ o[i] = o[j]
      BY <1>8, <2>1
    <3> QED BY <2>1, <3>1 DEF Placed, Distinct
  <2>2. CASE i > n /\ j > n
    <3>1. i - n = j - n
      BY <1>9, <2>2
    <3> QED BY <3>1
  <2>3. CASE i \in 1..n /\ j > n
    <3>1. b[i] = m + 1 /\ b[i] \in 1..m
      BY <1>8, <1>9, <2>3
    <3> QED BY <3>1
  <2>4. CASE i > n /\ j \in 1..n
    <3>1. b[j] = m + 1 /\ b[j] \in 1..m
      BY <1>8, <1>9, <2>4
    <3> QED BY <3>1
  <2> QED BY <1>10, <2>1, <2>2, <2>3, <2>4
<1>13. Complete(n+l, s, m+1, b2, o2)
  <2> HIDE DEF b2, o2
  <2> SUFFICES ASSUME NEW k \in 1..m+1, NEW y \in 1..Len(s[k])
               PROVE \E i \in 1..n+l : b2[i] = k /\ o2[i] = y
    BY DEF Complete
  <2>1. CASE k \in 1..m
    <3>1. PICK i \in 1..n : b[i] = k /\ o[i] = y
      BY <2>1 DEF Placed, Complete
    <3> QED BY <1>8, <3>1
  <2>2. CASE k = m + 1
    <3>1. y \in 1..l
      BY <1>2, <1>3, <2>2
    <3>2. PICK i \in 1..n+l : i = n + y
      <4>1. n + y \in 1..n+l
        BY <3>1
      <4> QED BY <4>1
    <3>3. i > n /\ i - n = y
      BY <3>1, <3>2
    <3>4. b2[i] = m + 1 /\ o2[i] = y
      BY <1>9, <3>2, <3>3
    <3> QED BY <2>2, <3>4
  <2> QED BY <2>1, <2>2
<1> HIDE DEF b2, o2
<1>14. Placed(G, n+l, s, m+1, b2, o2)
  BY <1>11, <1>12, <1>13 DEF Placed
<1>15. Placed(G, Len(G), s, m+1, b2, o2)
  BY <1>4, <1>14
<1> QED BY <1>2, <1>4, <1>15

\* Every element of FlattenSeq comes from one place, and every place is shown once.
LEMMA FlattenPlaces ==
  ASSUME NEW X, NEW s \in Seq(Seq(X))
  PROVE  \E b, o : Placed(FlattenSeq(s), Len(FlattenSeq(s)), s, Len(s), b, o)
<1>0. Len(s) \in Nat
  BY LenProperties
<1>1. PICK f : Steps(f, s) /\ FlattenSeq(s) = f[Len(s)]
  BY FlattenSteps DEF Steps
<1>2. \A m \in 0..Len(s) : f[m] \in Seq(X)
  BY <1>1, StepsType
<1> DEFINE S == {m \in Nat : m <= Len(s) => \E b, o : Placed(f[m], Len(f[m]), s, m, b, o)}
<1>3. 0 \in S
  <2>1. f[0] = << >> /\ Len(<< >>) = 0
    BY <1>1 DEF Steps
  <2> DEFINE z == [i \in 1..0 |-> 0]
  <2>2. z \in [1..0 -> 1..0] /\ z \in [1..0 -> Nat]
    OBVIOUS
  <2> HIDE DEF z
  <2>3. Placed(<< >>, 0, s, 0, z, z)
    BY <2>2 DEF Placed, Origin, Distinct, Complete
  <2>4. Placed(f[0], Len(f[0]), s, 0, z, z)
    BY <2>1, <2>3
  <2> QED BY <2>4
<1>4. ASSUME NEW m \in S PROVE m + 1 \in S
  <2>0. m \in Nat
    OBVIOUS
  <2>1. ASSUME m + 1 <= Len(s) PROVE \E b, o : Placed(f[m+1], Len(f[m+1]), s, m+1, b, o)
    <3>1. m \in 0..Len(s) /\ m + 1 \in 1..Len(s) /\ (m + 1) - 1 = m /\ m <= Len(s)
      BY <1>0, <2>0, <2>1
    <3>2. f[m+1] = f[m] \o s[m+1]
      BY <1>1, <3>1 DEF Steps
    <3>3. PICK b, o : Placed(f[m], Len(f[m]), s, m, b, o)
      BY <3>1
    <3>4. PICK F \in Seq(X), n \in Nat : F = f[m] /\ n = Len(F)
      BY <1>2, <3>1, LenProperties
    <3>5. \E b2, o2 : Placed(F \o s[m+1], Len(F \o s[m+1]), s, m+1, b2, o2)
      BY <2>0, <3>1, <3>3, <3>4, PlacedMore
    <3> QED BY <3>2, <3>4, <3>5
  <2> QED BY <2>0, <2>1
<1>5. S = Nat
  <2>1. S \in SUBSET Nat
    OBVIOUS
  <2> HIDE DEF S
  <2> QED BY <1>3, <1>4, <2>1, Climb
<1>6. PICK b, o : Placed(f[Len(s)], Len(f[Len(s)]), s, Len(s), b, o)
  <2>1. Len(s) \in S
    BY <1>0, <1>5
  <2> QED BY <1>0, <2>1
<1> QED BY <1>1, <1>6

-----
\* The rows of a turn: 0 is the user's message, what follows the parts the error.
RowAt(t, q) ==
  IF q = 0 THEN Row("user", t.id, 0, 0)
  ELSE IF q = Len(t.parts) + 1 THEN Row("error", 0, 0, 0)
  ELSE RowsOfPart(t, t.parts[q])[1]

\* The places of a turn that have a row.
HasRow(t, q) ==
  \/ q = 0
  \/ q = Len(t.parts) + 1 /\ t.failed
  \/ q \in 1..Len(t.parts) /\ RowsOfPart(t, t.parts[q]) # << >>

\* The i-th of the l rows of turn t is its o[i]-th.
TurnOrigin(t, rows, l, o) ==
  o \in [1..l -> Nat] /\ \A i \in 1..l : HasRow(t, o[i]) /\ rows[i] = RowAt(t, o[i])
TurnDistinct(l, o) == \A i, j \in 1..l : o[i] = o[j] => i = j
TurnComplete(t, l, o) == \A q \in 0..Len(t.parts)+1 : HasRow(t, q) => \E i \in 1..l : o[i] = q

\* The rows of a turn are those of its places, each once.
TurnPlaced(t, l, o) ==
  TurnOrigin(t, RowsOfTurn(t), l, o) /\ TurnDistinct(l, o) /\ TurnComplete(t, l, o)

\* A part makes one row or none.
LEMMA OneRow ==
  ASSUME NEW t, NEW p
  PROVE  \/ RowsOfPart(t, p) = << >> /\ Len(RowsOfPart(t, p)) = 0
         \/ RowsOfPart(t, p) # << >> /\ Len(RowsOfPart(t, p)) = 1
<1>1. RowsOfPart(t, p) = << >> \/ \E r : RowsOfPart(t, p) = <<r>>
  BY DEF RowsOfPart, CardsOfPart
<1>2. Len(<< >>) = 0 /\ \A r : Len(<<r>>) = 1 /\ <<r>> # << >>
  OBVIOUS
<1> QED BY <1>1, <1>2

\* The rows of the parts of a turn.
LEMMA PartPlaces ==
  ASSUME NEW t \in TurnT, NEW n \in Nat, n = Len(t.parts),
         NEW F, NEW l, F = FlattenSeq(PartRows(t)), l = Len(F)
  PROVE  \E b : /\ b \in [1..l -> 1..n]
                /\ \A i \in 1..l : /\ RowsOfPart(t, t.parts[b[i]]) # << >>
                                   /\ F[i] = RowsOfPart(t, t.parts[b[i]])[1]
                /\ TurnDistinct(l, b)
                /\ \A q \in 1..n : RowsOfPart(t, t.parts[q]) # << >> => \E i \in 1..l : b[i] = q
<1>2. PICK s \in Seq(Seq(RowT)) : s = PartRows(t) /\ Len(s) = n
  BY PartRowsType
<1>3. ASSUME NEW q \in 1..n
      PROVE  /\ s[q] = RowsOfPart(t, t.parts[q])
             /\ (s[q] = << >> /\ Len(s[q]) = 0) \/ (s[q] # << >> /\ Len(s[q]) = 1)
  <2>1. s[q] = RowsOfPart(t, t.parts[q])
    BY <1>2, PartsOf DEF PartRows
  <2> QED BY <2>1, OneRow
<1>4. PICK b, p : Placed(F, l, s, n, b, p)
  BY <1>2, FlattenPlaces
<1>5. /\ b \in [1..l -> 1..n] /\ p \in [1..l -> Nat]
      /\ \A i \in 1..l : p[i] \in 1..Len(s[b[i]]) /\ F[i] = s[b[i]][p[i]]
  BY <1>4 DEF Placed, Origin
<1>6. ASSUME NEW i \in 1..l
      PROVE  p[i] = 1 /\ s[b[i]] # << >> /\ F[i] = s[b[i]][1] /\ b[i] \in 1..n
  <2>1. PICK q \in 1..n : q = b[i]
    BY <1>5
  <2>2. p[i] \in 1..Len(s[q]) /\ F[i] = s[q][p[i]]
    BY <1>5, <2>1
  <2>3. s[q] # << >> /\ Len(s[q]) = 1
    BY <1>3, <2>2
  <2>4. p[i] = 1
    BY <2>2, <2>3
  <2> QED BY <2>1, <2>2, <2>3, <2>4
<1>7. TurnDistinct(l, b)
  <2> SUFFICES ASSUME NEW i \in 1..l, NEW j \in 1..l, b[i] = b[j] PROVE i = j
    BY DEF TurnDistinct
  <2>1. p[i] = p[j]
    BY <1>6
  <2> QED BY <1>4, <2>1 DEF Placed, Distinct
<1>8. ASSUME NEW q \in 1..n, RowsOfPart(t, t.parts[q]) # << >> PROVE \E i \in 1..l : b[i] = q
  <2>1. Len(s[q]) = 1
    BY <1>3, <1>8
  <2>2. 1 \in 1..Len(s[q])
    BY <2>1
  <2> QED BY <1>4, <2>2 DEF Placed, Complete
<1>9. \A i \in 1..l : RowsOfPart(t, t.parts[b[i]]) # << >> /\ F[i] = RowsOfPart(t, t.parts[b[i]])[1]
  BY <1>3, <1>6
<1> QED BY <1>5, <1>7, <1>8, <1>9

\* A sequence of a row, the rows of the parts and perhaps one row more.
LEMMA Framed ==
  ASSUME NEW X, NEW u \in Seq(X), NEW F \in Seq(X), NEW e \in Seq(X), NEW l \in Nat, NEW h \in {0, 1},
         Len(u) = 1, Len(F) = l, Len(e) = h
  PROVE  /\ Len(u \o F \o e) = 1 + l + h
         /\ (u \o F \o e)[1] = u[1]
         /\ \A i \in 1..l : (u \o F \o e)[i + 1] = F[i]
         /\ h = 1 => (u \o F \o e)[l + 2] = e[1]
<1>1. PICK g \in Seq(X) : g = u \o F /\ Len(g) = 1 + l /\ \A i \in 1..1+l : g[i] = IF i <= 1 THEN u[i] ELSE F[i - 1]
  <2>0. /\ u \o F \in Seq(X) /\ Len(u \o F) = Len(u) + Len(F)
        /\ \A i \in 1..Len(u)+Len(F) : (u \o F)[i] = IF i <= Len(u) THEN u[i] ELSE F[i - Len(u)]
    BY ONLY ConcatProperties, u \in Seq(X), F \in Seq(X)
  <2>1. u \o F \in Seq(X) /\ Len(u \o F) = 1 + l
    BY <2>0
  <2>2. \A i \in 1..1+l : (u \o F)[i] = IF i <= 1 THEN u[i] ELSE F[i - 1]
    BY <2>0
  <2> QED BY <2>1, <2>2
<1>2. PICK R \in Seq(X) : R = g \o e
  BY ConcatProperties
<1>3. Len(R) = 1 + l + h /\ \A i \in 1..1+l+h : R[i] = IF i <= 1 + l THEN g[i] ELSE e[i - (1 + l)]
  BY <1>1, <1>2, ConcatProperties
<1>4. R[1] = u[1]
  <2>1. 1 \in 1..1+l+h /\ 1 \in 1..1+l /\ 1 <= 1 + l
    OBVIOUS
  <2> QED BY <1>1, <1>3, <2>1
<1>5. ASSUME NEW i \in 1..l PROVE R[i+1] = F[i]
  <2>1. i + 1 \in 1..1+l+h /\ i + 1 \in 1..1+l /\ i + 1 <= 1 + l /\ (i + 1) - 1 = i /\ ~(i + 1 <= 1)
    OBVIOUS
  <2> QED BY <1>1, <1>3, <2>1
<1>6. ASSUME h = 1 PROVE R[l+2] = e[1]
  <2>1. l + 2 \in 1..1+l+h /\ ~(l + 2 <= 1 + l) /\ (l + 2) - (1 + l) = 1
    BY <1>6
  <2> QED BY <1>3, <2>1
<1> QED BY <1>1, <1>2, <1>3, <1>4, <1>5, <1>6

\* A turn makes one row of its error or none.
LEMMA ErrorRow ==
  ASSUME NEW t \in TurnT
  PROVE  \E h \in {0, 1} : /\ Len(ErrorRows(t)) = h /\ (h = 1 <=> t.failed)
                           /\ (h = 1 => ErrorRows(t)[1] = Row("error", 0, 0, 0))
<1>1. CASE t.failed
  <2>1. ErrorRows(t) = <<Row("error", 0, 0, 0)>>
    BY <1>1 DEF ErrorRows
  <2>2. Len(ErrorRows(t)) = 1 /\ ErrorRows(t)[1] = Row("error", 0, 0, 0)
    BY <2>1
  <2> QED BY <1>1, <2>2
<1>2. CASE ~t.failed
  <2>1. ErrorRows(t) = << >>
    BY <1>2 DEF ErrorRows
  <2>2. Len(ErrorRows(t)) = 0
    BY <2>1
  <2>3. 0 \in {0, 1} /\ 0 # 1
    OBVIOUS
  <2> QED BY <1>2, <2>2, <2>3
<1> QED BY <1>1, <1>2

\* RowsOfTurn shows every place of the turn once.
LEMMA TurnPlaces ==
  ASSUME NEW t \in TurnT
  PROVE  \E o : TurnPlaced(t, Len(RowsOfTurn(t)), o)
<1>1. PICK n \in Nat : n = Len(t.parts)
  BY PartsOf
<1>2. PartRows(t) \in Seq(Seq(RowT))
  BY PartRowsType
<1>3. PICK F \in Seq(RowT) : F = FlattenSeq(PartRows(t))
  BY <1>2, FlattenType
<1>4. PICK l \in Nat : l = Len(F)
  BY LenProperties
<1>5. PICK b : /\ b \in [1..l -> 1..n]
               /\ \A i \in 1..l : /\ RowsOfPart(t, t.parts[b[i]]) # << >>
                                  /\ F[i] = RowsOfPart(t, t.parts[b[i]])[1]
               /\ TurnDistinct(l, b)
               /\ \A q \in 1..n : RowsOfPart(t, t.parts[q]) # << >> => \E i \in 1..l : b[i] = q
  BY <1>1, <1>3, <1>4, PartPlaces
<1>6. PICK u \in Seq(RowT) : u = <<Row("user", t.id, 0, 0)>> /\ Len(u) = 1 /\ u[1] = Row("user", t.id, 0, 0)
  <2>1. Len(<<Row("user", t.id, 0, 0)>>) = 1 /\ <<Row("user", t.id, 0, 0)>>[1] = Row("user", t.id, 0, 0)
    OBVIOUS
  <2> QED BY <2>1, UserRowType
<1>7. PICK e \in Seq(RowT) : e = ErrorRows(t)
  BY ErrorRowsType
<1>8. PICK h \in {0, 1} : Len(e) = h /\ (h = 1 <=> t.failed) /\ (h = 1 => e[1] = Row("error", 0, 0, 0))
  BY <1>7, ErrorRow
<1>9. PICK R : R = RowsOfTurn(t) /\ R = u \o F \o e
  BY <1>3, <1>6, <1>7, RowsOfTurnType
<1>10. /\ Len(R) = 1 + l + h
       /\ R[1] = Row("user", t.id, 0, 0)
       /\ \A i \in 1..l : R[i + 1] = F[i]
       /\ h = 1 => R[l + 2] = Row("error", 0, 0, 0)
  BY <1>4, <1>6, <1>8, <1>9, Framed
<1> DEFINE o == [i \in 1..1+l+h |-> IF i = 1 THEN 0 ELSE IF i <= 1 + l THEN b[i - 1] ELSE n + 1]
<1>11. 1 \in 1..1+l+h /\ o[1] = 0
  <2>1. 1 \in 1..1+l+h
    BY <1>8
  <2> QED BY <2>1
<1>12. ASSUME NEW i \in 1..l
       PROVE  i + 1 \in 1..1+l+h /\ o[i+1] = b[i] /\ b[i] \in 1..n
  <2>1. i + 1 \in 1..1+l+h /\ i + 1 # 1 /\ i + 1 <= 1 + l /\ (i + 1) - 1 = i
    BY <1>8
  <2>2. o[i+1] = b[(i + 1) - 1]
    BY <2>1
  <2> QED BY <1>5, <2>1, <2>2
<1>13. ASSUME h = 1 PROVE l + 2 \in 1..1+l+h /\ o[l+2] = n + 1
  <2>1. l + 2 \in 1..1+l+h /\ l + 2 # 1 /\ ~(l + 2 <= 1 + l)
    BY <1>13
  <2> QED BY <2>1
<1>14. ASSUME NEW i \in 1..1+l+h
       PROVE  i = 1 \/ (\E j \in 1..l : i = j + 1) \/ (h = 1 /\ i = l + 2)
  <2>1. ASSUME i # 1, i <= 1 + l PROVE \E j \in 1..l : i = j + 1
    <3>1. i - 1 \in 1..l /\ i = (i - 1) + 1
      BY <2>1
    <3> QED BY <3>1
  <2>2. ASSUME ~(i <= 1 + l) PROVE h = 1 /\ i = l + 2
    <3>1. h = 0 \/ h = 1
      BY <1>8
    <3> QED BY <2>2, <3>1
  <2> QED BY <2>1, <2>2
<1>15. o \in [1..1+l+h -> Nat]
  <2>1. ASSUME NEW i \in 1..1+l+h PROVE (IF i = 1 THEN 0 ELSE IF i <= 1 + l THEN b[i - 1] ELSE n + 1) \in Nat
    <3>1. i # 1 /\ i <= 1 + l => i - 1 \in 1..l
      BY <1>8
    <3>a. b \in [1..l -> 1..n]
      BY <1>5
    <3>2. \A j \in 1..l : b[j] \in Nat
      <4>1. ASSUME NEW j \in 1..l PROVE b[j] \in 1..n
        BY <3>a
      <4> QED BY <4>1
    <3>3. i # 1 /\ i <= 1 + l => b[i - 1] \in Nat
      BY <3>1, <3>2
    <3> QED BY <3>3
  <2> QED BY <2>1
<1> HIDE DEF o
<1>16. HasRow(t, 0) /\ (h = 1 => HasRow(t, n + 1)) /\ \A q \in 1..n : HasRow(t, q) <=> RowsOfPart(t, t.parts[q]) # << >>
  BY <1>1, <1>8 DEF HasRow
<1>17. RowAt(t, 0) = Row("user", t.id, 0, 0) /\ RowAt(t, n + 1) = Row("error", 0, 0, 0)
       /\ \A q \in 1..n : RowAt(t, q) = RowsOfPart(t, t.parts[q])[1]
  BY <1>1 DEF RowAt
<1>18. ASSUME NEW i \in 1..1+l+h PROVE HasRow(t, o[i]) /\ R[i] = RowAt(t, o[i])
  <2>1. CASE i = 1
    BY <1>10, <1>11, <1>16, <1>17, <2>1
  <2>2. CASE \E j \in 1..l : i = j + 1
    <3>1. PICK j \in 1..l : i = j + 1
      BY <2>2
    <3>2. PICK q \in 1..n : q = b[j] /\ o[i] = q
      BY <1>12, <3>1
    <3>3. RowsOfPart(t, t.parts[q]) # << >> /\ F[j] = RowsOfPart(t, t.parts[q])[1] /\ R[i] = F[j]
      BY <1>5, <1>10, <3>1, <3>2
    <3> QED BY <1>16, <1>17, <3>2, <3>3
  <2>3. CASE h = 1 /\ i = l + 2
    BY <1>10, <1>13, <1>16, <1>17, <2>3
  <2> QED BY <1>14, <2>1, <2>2, <2>3
<1>19. ASSUME NEW i \in 1..1+l+h
       PROVE  \/ i = 1 /\ o[i] = 0
              \/ \E j \in 1..l : i = j + 1 /\ o[i] = b[j] /\ b[j] \in 1..n
              \/ i = l + 2 /\ o[i] = n + 1
  BY <1>11, <1>12, <1>13, <1>14
<1>20. TurnDistinct(1+l+h, o)
  <2> SUFFICES ASSUME NEW i \in 1..1+l+h, NEW j \in 1..1+l+h, o[i] = o[j] PROVE i = j
    BY DEF TurnDistinct
  <2>1. CASE i = 1 /\ o[i] = 0
    BY <1>19, <2>1
  <2>2. CASE i = l + 2 /\ o[i] = n + 1
    <3>1. o[j] # 0 /\ ~(o[j] \in 1..n)
      BY <2>2
    <3> QED BY <1>19, <2>2, <3>1
  <2>3. CASE \E x \in 1..l : i = x + 1 /\ o[i] = b[x] /\ b[x] \in 1..n
    <3>1. PICK x \in 1..l : i = x + 1 /\ o[i] = b[x] /\ b[x] \in 1..n
      BY <2>3
    <3>2. PICK y \in 1..l : j = y + 1 /\ o[j] = b[y]
      BY <1>19, <3>1
    <3>3. x = y
      BY <1>5, <3>1, <3>2 DEF TurnDistinct
    <3> QED BY <3>1, <3>2, <3>3
  <2> QED BY <1>19, <2>1, <2>2, <2>3
<1>21. ASSUME NEW q \in 0..n+1, HasRow(t, q) PROVE \E i \in 1..1+l+h : o[i] = q
  <2>1. CASE q = 0
    BY <1>11, <2>1
  <2>2. CASE q \in 1..n
    <3>1. PICK i \in 1..l : b[i] = q
      BY <1>5, <1>16, <1>21, <2>2
    <3> QED BY <1>12, <3>1
  <2>3. CASE q = n + 1
    <3>1. t.failed
      BY <1>1, <1>21, <2>3 DEF HasRow
    <3> QED BY <1>8, <1>13, <2>3, <3>1
  <2> QED BY <2>1, <2>2, <2>3
<1>22. TurnPlaced(t, 1+l+h, o)
  BY <1>1, <1>9, <1>15, <1>18, <1>20, <1>21 DEF TurnPlaced, TurnOrigin, TurnComplete
<1> QED BY <1>9, <1>10, <1>22

\* The i-th of the rows of all turns is row o[i] of turn b[i].
ChatOrigin(ts, rows, l, b, o) ==
  /\ b \in [1..l -> 1..Len(ts)] /\ o \in [1..l -> Nat]
  /\ \A i \in 1..l : HasRow(ts[b[i]], o[i]) /\ rows[i] = RowAt(ts[b[i]], o[i])
ChatComplete(ts, l, b, o) ==
  \A k \in 1..Len(ts) : \A q \in 0..Len(ts[k].parts)+1 : HasRow(ts[k], q) => \E i \in 1..l : b[i] = k /\ o[i] = q

\* The rows of turns, and where each comes from.
ChatPlaced(ts, rows, l, b, o) ==
  ChatOrigin(ts, rows, l, b, o) /\ Distinct(l, b, o) /\ ChatComplete(ts, l, b, o)

\* A snapshot shows every place of every turn once.
LEMMA ChatPlaces ==
  ASSUME NEW ts \in Seq(TurnT)
  PROVE  \E b, o : ChatPlaced(ts, RowsOf(ts), Len(RowsOf(ts)), b, o)
<1>1. PICK n \in Nat : n = Len(ts) /\ \A k \in 1..n : ts[k] \in TurnT
  BY LenProperties, ElementOfSeq
<1>2. PICK s \in Seq(Seq(RowT)) : s = TurnRows(ts) /\ Len(s) = n /\ RowsOf(ts) = FlattenSeq(s)
  BY <1>1, RowsOfType
<1>3. \A k \in 1..n : s[k] = RowsOfTurn(ts[k])
  BY <1>1, <1>2, LenProperties DEF TurnRows
<1>4. PICK F : F = FlattenSeq(s)
  OBVIOUS
<1>5. PICK l : l = Len(F)
  OBVIOUS
<1>6. PICK b, p : Placed(F, l, s, n, b, p)
  BY <1>2, <1>4, <1>5, FlattenPlaces
<1>7. /\ b \in [1..l -> 1..n] /\ p \in [1..l -> Nat]
      /\ \A i \in 1..l : p[i] \in 1..Len(s[b[i]]) /\ F[i] = s[b[i]][p[i]]
  BY <1>6 DEF Placed, Origin
<1> DEFINE Of(k) == CHOOSE x : TurnPlaced(ts[k], Len(s[k]), x)
<1>8. ASSUME NEW k \in 1..n PROVE TurnPlaced(ts[k], Len(s[k]), Of(k))
  <2>1. \E x : TurnPlaced(ts[k], Len(s[k]), x)
    BY <1>1, <1>3, TurnPlaces
  <2> QED BY <2>1, Zenon
<1> HIDE DEF Of
<1>9. ASSUME NEW k \in 1..n
      PROVE  /\ Of(k) \in [1..Len(s[k]) -> Nat]
             /\ \A x \in 1..Len(s[k]) : HasRow(ts[k], Of(k)[x]) /\ s[k][x] = RowAt(ts[k], Of(k)[x])
             /\ \A x, y \in 1..Len(s[k]) : Of(k)[x] = Of(k)[y] => x = y
             /\ \A q \in 0..Len(ts[k].parts)+1 : HasRow(ts[k], q) => \E x \in 1..Len(s[k]) : Of(k)[x] = q
  BY <1>3, <1>8 DEF TurnPlaced, TurnOrigin, TurnDistinct, TurnComplete
<1>10. PICK o : o = [i \in 1..l |-> Of(b[i])[p[i]]]
  OBVIOUS
<1>11. ASSUME NEW i \in 1..l
       PROVE  \E k \in 1..n : \E x \in 1..Len(s[k]) :
                 b[i] = k /\ p[i] = x /\ o[i] = Of(k)[x] /\ F[i] = s[k][x] /\ o[i] \in Nat
  <2>1. PICK k \in 1..n : k = b[i]
    BY <1>7
  <2>2. PICK x \in 1..Len(s[k]) : x = p[i] /\ F[i] = s[k][x]
    BY <1>7, <2>1
  <2>3. o[i] = Of(k)[x]
    BY <1>10, <2>1, <2>2
  <2>4. o[i] \in Nat
    BY <1>9, <2>3
  <2> QED BY <2>1, <2>2, <2>3, <2>4
<1>12. ChatOrigin(ts, F, l, b, o)
  <2>1. o \in [1..l -> Nat]
    <3>1. \A i \in 1..l : o[i] \in Nat
      BY <1>11
    <3>2. o = [i \in 1..l |-> o[i]]
      BY <1>10
    <3> QED BY <3>1, <3>2
  <2>2. ASSUME NEW i \in 1..l PROVE HasRow(ts[b[i]], o[i]) /\ F[i] = RowAt(ts[b[i]], o[i])
    <3>1. PICK k \in 1..n : \E x \in 1..Len(s[k]) :
                 b[i] = k /\ p[i] = x /\ o[i] = Of(k)[x] /\ F[i] = s[k][x]
      BY <1>11
    <3>4. PICK x \in 1..Len(s[k]) : b[i] = k /\ o[i] = Of(k)[x] /\ F[i] = s[k][x]
      BY <3>1
    <3>2. HasRow(ts[k], Of(k)[x]) /\ s[k][x] = RowAt(ts[k], Of(k)[x])
      BY <1>9
    <3> QED BY <3>2, <3>4
  <2> QED BY <1>1, <1>7, <2>1, <2>2 DEF ChatOrigin
<1>13. Distinct(l, b, o)
  <2> SUFFICES ASSUME NEW i \in 1..l, NEW j \in 1..l, b[i] = b[j], o[i] = o[j] PROVE i = j
    BY DEF Distinct
  <2>0. PICK k \in 1..n : \E x \in 1..Len(s[k]) : b[i] = k /\ p[i] = x /\ o[i] = Of(k)[x]
    BY <1>11
  <2>1. PICK x \in 1..Len(s[k]) : b[i] = k /\ p[i] = x /\ o[i] = Of(k)[x]
    BY <2>0
  <2>2. PICK y \in 1..Len(s[k]) : p[j] = y /\ o[j] = Of(k)[y]
    <3>1. PICK kk \in 1..n : \E x2 \in 1..Len(s[kk]) : b[j] = kk /\ p[j] = x2 /\ o[j] = Of(kk)[x2]
      BY <1>11
    <3>2. kk = k
      BY <2>1, <3>1
    <3> QED BY <3>1, <3>2
  <2>3. x = y
    <3>1. \A c, d \in 1..Len(s[k]) : Of(k)[c] = Of(k)[d] => c = d
      BY <1>9
    <3>2. Of(k)[x] = Of(k)[y]
      BY <2>1, <2>2
    <3> QED BY <3>1, <3>2
  <2>4. p[i] = p[j]
    BY <2>1, <2>2, <2>3
  <2> QED BY <1>6, <2>4 DEF Placed, Distinct
<1>14. ChatComplete(ts, l, b, o)
  <2> SUFFICES ASSUME NEW k \in 1..n, NEW q \in 0..Len(ts[k].parts)+1, HasRow(ts[k], q)
               PROVE  \E i \in 1..l : b[i] = k /\ o[i] = q
    BY <1>1 DEF ChatComplete
  <2>1. PICK x \in 1..Len(s[k]) : Of(k)[x] = q
    BY <1>9
  <2>2. PICK i \in 1..l : b[i] = k /\ p[i] = x
    BY <1>6 DEF Placed, Complete
  <2>3. o[i] = q
    BY <1>10, <2>1, <2>2
  <2> QED BY <2>2, <2>3
<1>15. ChatPlaced(ts, F, l, b, o)
  BY <1>12, <1>13, <1>14 DEF ChatPlaced
<1> QED BY <1>2, <1>4, <1>5, <1>15

-----------------------------------------------------------------------------
\* No call waits for an answer.
NonePending(t) == \A i \in DOMAIN t.parts : t.parts[i].status # "pending-confirmation"
NoPending(c) == \A t \in TurnSet(c) : NonePending(t)

\* The messages by which the window learns of the request and of its answer.
Asks(a, perm) == a.type = "toolCallConfirmed" \/ (a.type = "toolCallReady" /\ a.tool = perm)

\* No call begins to wait by an action that asks for nothing ...
LEMMA ReducedPending ==
  ASSUME NEW t \in TurnT, NEW a \in ActionT, NonePending(t), ~Asks(a, Permission),
         a.type = "toolCallComplete" => a.note # "pending-confirmation"
  PROVE  NonePending(Reduced(t, a))
<1>1. PICK r \in TurnT : r = Reduced(t, a)
  BY ReducedType
<1>2. ReducedTo(r, t, a)
  BY <1>1, ReducedIs
<1>3. /\ t.parts \in Seq(PartT) /\ \A i \in DOMAIN t.parts : t.parts[i] \in PartT
  BY PartsOf
<1>4. CASE a.type \in Adds
  <2>1. PICK x \in PartT : r.parts = Append(t.parts, x) /\ x.status # "pending-confirmation"
    <3>1. TextPart.status = "" /\ ToolPart(a.tool).status = "streaming"
      BY PartFacts
    <3> QED BY <1>2, <1>4, <3>1, PartTypes DEF ReducedTo, Adds, ActionT
  <2>2. PICK l \in Nat : /\ DOMAIN t.parts = 1..l /\ DOMAIN r.parts = 1..l+1 /\ r.parts[l+1] = x
                         /\ \A i \in 1..l : r.parts[i] = t.parts[i]
    <3>1. AddedTo(r.parts, t.parts, x)
      BY <1>3, <2>1, AppendAdds
    <3> QED BY <3>1 DEF AddedTo
  <2>3. ASSUME NEW i \in DOMAIN r.parts PROVE r.parts[i].status # "pending-confirmation"
    <3>1. i \in 1..l \/ i = l + 1
      BY <2>2
    <3> QED BY <2>1, <2>2, <3>1 DEF NonePending
  <2> QED BY <1>1, <2>3 DEF NonePending
<1>5. CASE a.type \notin Adds
  <2>1. DOMAIN r.parts = DOMAIN t.parts /\ \A i \in DOMAIN t.parts : r.parts[i] = Changed(t.parts[i], a)
    BY <1>2, <1>5 DEF ReducedTo
  <2>2. ASSUME NEW p \in PartT, p.status # "pending-confirmation" PROVE Changed(p, a).status # "pending-confirmation"
    <3>1. PICK q : q = Changed(p, a) /\ ChangedTo(q, p, a)
      BY ChangedIs
    <3>2. CASE a.type = "delta"
      BY <2>2, <3>1, <3>2 DEF ChangedTo
    <3>3. CASE q = p
      BY <2>2, <3>1, <3>3
    <3>4. CASE p.tool = a.tool /\ a.type \in Settles
      BY <3>1, <3>4 DEF ChangedTo, Settles, Asks
    <3> QED BY <3>1, <3>2, <3>3, <3>4 DEF ChangedTo
  <2> QED BY <1>1, <1>3, <2>1, <2>2 DEF NonePending
<1> QED BY <1>4, <1>5

\* ... nor at the end of its turn ...
LEMMA EndedPending ==
  ASSUME NEW t \in TurnT, NEW f, NonePending(t)
  PROVE  NonePending(Ended(t, f))
<1>1. PICK r : r = Ended(t, f)
  OBVIOUS
<1>2. EndedTo(r, t, f) /\ \A i \in DOMAIN t.parts : t.parts[i] \in PartT
  BY <1>1, EndedIs, PartsOf
<1>3. ASSUME NEW i \in DOMAIN t.parts PROVE r.parts[i].status # "pending-confirmation"
  <2>1. PICK p \in PartT : p = t.parts[i]
    BY <1>2
  <2>2. [p EXCEPT !.status = "cancelled"].status = "cancelled"
    BY DEF PartT
  <2>3. r.parts[i] = p \/ r.parts[i] = [p EXCEPT !.status = "cancelled"]
    BY <1>2, <2>1 DEF EndedTo
  <2> QED BY <2>1, <2>2, <2>3 DEF NonePending
<1> QED BY <1>1, <1>2, <1>3 DEF NonePending, EndedTo

\* ... nor anywhere in the chat.
LEMMA PendingAfter ==
  ASSUME NEW c \in ChatT, NEW a \in ActionT, a.turn # 0, NoPending(c), ~Asks(a, Permission),
         a.type = "toolCallComplete" => a.note # "pending-confirmation"
  PROVE  NoPending(Applied(c, a))
<1> SUFFICES ASSUME NEW t \in TurnSet(Applied(c, a)) PROVE NonePending(t)
  BY DEF NoPending
<1>1. TurnAfter(t, c, a) /\ c.active \in TurnT
  BY TurnsAfter, ChatParts
<1>2. CASE t \in TurnSet(c)
  BY <1>2 DEF NoPending
<1>3. CASE t.parts = << >>
  BY <1>3 DEF NonePending
<1>4. CASE c.active \in TurnSet(c) /\ (t = Reduced(c.active, a) \/ t = Ended(c.active, a.type = "error"))
  <2>1. NonePending(c.active)
    BY <1>4 DEF NoPending
  <2>2. NonePending(Reduced(c.active, a)) /\ NonePending(Ended(c.active, a.type = "error"))
    BY <1>1, <2>1, ReducedPending, EndedPending
  <2> QED BY <1>4, <2>2
<1> QED BY <1>1, <1>2, <1>3, <1>4 DEF TurnAfter

-----
\* What a sequence loses at its head.
TailOf(q, s) == \E n \in Nat : /\ DOMAIN s = 1..n+1 /\ DOMAIN q = 1..n
                               /\ \A i \in 1..n : q[i] = s[i + 1]

\* A sequence and its tail.
LEMMA Tails ==
  ASSUME NEW X, NEW s \in Seq(X), s # << >>
  PROVE  /\ TailOf(Tail(s), s) /\ Tail(s) \in Seq(X) /\ Head(s) = s[1] /\ s[1] \in X
         /\ 1 \in DOMAIN s
<1>1. /\ Tail(s) \in Seq(X) /\ Len(Tail(s)) = Len(s) - 1
      /\ \A i \in 1..Len(Tail(s)) : Tail(s)[i] = s[i + 1]
  BY HeadTailProperties
<1>2. PICK n \in Nat : n = Len(Tail(s)) /\ DOMAIN Tail(s) = 1..n
  BY <1>1, LenProperties
<1>3. DOMAIN s = 1..n+1
  <2>1. Len(s) \in Nat /\ DOMAIN s = 1..Len(s)
    BY LenProperties
  <2>2. Len(s) = n + 1
    BY <1>1, <1>2, <2>1
  <2> QED BY <2>1, <2>2
<1>4. Head(s) = s[1]
  OBVIOUS
<1>5. 1 \in DOMAIN s
  BY <1>3
<1>6. TailOf(Tail(s), s)
  BY <1>1, <1>2, <1>3 DEF TailOf
<1>7. s[1] \in X
  BY <1>5, ElementOfSeq, LenProperties
<1> QED BY <1>1, <1>4, <1>5, <1>6, <1>7

-----
\* The invariant, part by part.
AgentGood == AgentFits(agent, active, count.turn, count.tool, Permission)
AskGood == AskFits(ask, chat, count.turn, count.tool) /\ (registered => ask.step # "idle")

\* A turn nobody at the host has heard of.
Unused(t) ==
  /\ t \notin Ids(chat) /\ agent.turn # t /\ ask.turn # t
  /\ \A j \in DOMAIN flight : flight[j].msg.turn # t /\ t \notin Ids(flight[j].was)

\* The requests of the window name turns that are numbered, as does the view.
UplinkGood ==
  \A k \in DOMAIN uplink : /\ uplink[k].turn \in 0..count.turn
                           /\ uplink[k].type # "subscribe" => uplink[k].turn # 0
ViewNames == view.turn \in 0..count.turn /\ view.proj \in 0..count.turn
\* A turn the window asks for is one nobody at the host has heard of.
OwnFresh ==
  \A k \in DOMAIN uplink : uplink[k].type = "turnStarted" =>
     /\ Unused(uplink[k].turn)
     /\ \A j \in 1..k - 1 : uplink[j].turn # uplink[k].turn
\* Nothing on the way before the start of a turn is about that turn.
StartsFresh ==
  \A k \in DOMAIN flight : flight[k].msg.type = "turnStarted" =>
     \A j \in 1..k - 1 : /\ flight[j].msg.turn # flight[k].msg.turn
                         /\ flight[k].msg.turn \notin Ids(flight[j].was)

\* Nobody has been asked for anything.
Unasked ==
  /\ \A i \in DOMAIN view.rows : view.rows[i].kind # "approval"
  /\ \A k \in DOMAIN uplink : uplink[k].type # "toolCallConfirmed"
  /\ \A k \in DOMAIN flight : ~Asks(flight[k].msg, Permission) /\ NoPending(flight[k].was)
  /\ NoPending(chat)
\* Before the request waits, nobody knows of it; what the window shows as one is it.
RequestGood ==
  /\ ask.step # "waiting" => Unasked
  /\ \A i \in DOMAIN view.rows : view.rows[i].kind = "approval" => view.rows[i].tool = Permission

\* The invariant of the host and of what is on its way.
HostInv ==
  /\ TypesRight /\ HostGood /\ AgentGood /\ AskGood
  /\ UplinkGood /\ ViewNames /\ OwnFresh /\ StartsFresh /\ RequestGood

-----
\* What the reader took from the requests of the window, if anything.
UplinkStep(a) ==
  \/ /\ uplink' = uplink
     /\ \A k \in DOMAIN uplink : uplink[k].type = "turnStarted" => uplink[k].turn # a.turn
  \/ /\ uplink # << >> /\ uplink' = Tail(uplink) /\ uplink[1].type # "subscribe"
     /\ uplink[1].type = "turnStarted" => a.type = "turnStarted" /\ a.turn = uplink[1].turn
     /\ \A k \in DOMAIN uplink : k # 1 /\ uplink[k].type = "turnStarted" => uplink[k].turn # a.turn

\* A turn the window asked for, or one of another window.
Startable(t) == t = count.turn + 1 \/ \E k \in DOMAIN uplink : uplink[k].type = "turnStarted" /\ uplink[k].turn = t

\* The window asked for an answer.
Answering(a) == a.type = "toolCallConfirmed" => \E k \in DOMAIN uplink : uplink[k].type = "toolCallConfirmed"
\* What all steps that apply an action to the chat have in common.
EmitStep(e, a) ==
  /\ e \in {"agent", "ask", "reader"} /\ a \in ActionT /\ a.type # "snapshot" /\ a.turn # 0
  /\ Emit(e, a)
  /\ Grows(count'.turn, count'.tool, Permission, ask.turn)
  /\ MessageGood(Entry(e, a), count'.turn, count'.tool, Permission, ask.turn)
  /\ AgentFits(agent', Applied(chat, a).active, count'.turn, count'.tool, Permission)
  /\ AskFits(ask', Applied(chat, a), count'.turn, count'.tool)
  /\ ask'.tool = ask.tool /\ ask'.turn = ask.turn /\ (ask'.step = "idle" => ask.step = "idle")
  /\ ask'.step # "waiting" => ask.step # "waiting" /\ ~Asks(a, Permission)
  /\ registered' => registered
  /\ agent'.turn \in {0, agent.turn, active.id, a.turn}
  /\ UplinkStep(a)
  /\ agent'.step = "toolCallReady" =>
       agent' = agent \/ (a.type = "toolCallStart" /\ agent'.turn = a.turn /\ agent'.tool = a.tool)
  /\ ask'.step = "toolCallReady" =>
       ask.step = "toolCallReady" \/ (a.type = "toolCallStart" /\ a.turn = ask.turn /\ a.tool = ask.tool)
  /\ a.type = "turnStarted" => a.turn \notin {ask.turn, agent.turn} /\ Startable(a.turn)
  /\ a.type = "turnStarted" => \A j \in DOMAIN flight : /\ flight[j].msg.turn # a.turn
                                                        /\ a.turn \notin Ids(flight[j].was)
  /\ Answering(a)
  /\ subscribed' = subscribed /\ UNCHANGED clientVars

\* The requests that are left are some of those before, in their order.
LEMMA UplinkLeft ==
  ASSUME TypesRight, NEW a, UplinkStep(a)
  PROVE  \A k \in DOMAIN uplink' : \E i \in DOMAIN uplink :
            /\ uplink'[k] = uplink[i]
            /\ \A j \in 1..k - 1 : \E h \in 1..i - 1 : uplink'[j] = uplink[h]
            /\ uplink[i].type = "turnStarted" => uplink[i].turn # a.turn
<1> SUFFICES ASSUME NEW k \in DOMAIN uplink'
             PROVE  \E i \in DOMAIN uplink :
            /\ uplink'[k] = uplink[i]
            /\ \A j \in 1..k - 1 : \E h \in 1..i - 1 : uplink'[j] = uplink[h]
            /\ uplink[i].type = "turnStarted" => uplink[i].turn # a.turn
  OBVIOUS
<1>1. uplink \in Seq(RequestT)
  BY DEF TypesRight, NetT
<1>2. CASE uplink # << >> /\ uplink' = Tail(uplink)
  <2>1. PICK n \in Nat : /\ DOMAIN uplink = 1..n+1 /\ DOMAIN uplink' = 1..n
                         /\ \A i \in 1..n : uplink'[i] = uplink[i + 1]
    BY <1>1, <1>2, Tails DEF TailOf
  <2>2. k \in 1..n /\ k + 1 \in DOMAIN uplink /\ k + 1 # 1 /\ uplink'[k] = uplink[k + 1]
    BY <2>1
  <2>3. ASSUME NEW j \in 1..k-1 PROVE \E h \in 1..(k+1)-1 : uplink'[j] = uplink[h]
    <3>1. j \in 1..n /\ j + 1 \in 1..(k+1)-1
      BY <2>2
    <3> QED BY <2>1, <3>1
  <2>4. uplink[k+1].type = "turnStarted" => uplink[k+1].turn # a.turn
    <3>1. ~(uplink' = uplink)
      <4>1. n + 1 \in DOMAIN uplink /\ n + 1 \notin DOMAIN uplink'
        BY <2>1
      <4> QED BY <4>1
    <3> QED BY <2>2, <3>1 DEF UplinkStep
  <2> QED BY <2>2, <2>3, <2>4
<1>3. CASE uplink' = uplink /\ \A i \in DOMAIN uplink : uplink[i].type = "turnStarted" => uplink[i].turn # a.turn
  BY <1>3
<1> QED BY <1>2, <1>3 DEF UplinkStep

\* A name nobody heard of stays one, when the action is about another turn.
LEMMA EmitUnused ==
  ASSUME TypesRight, NEW e, NEW a, EmitStep(e, a), NEW t \in Nat, Unused(t), t # 0, t # a.turn
  PROVE  Unused(t)'
<1>1. a \in ActionT /\ a.turn # 0 /\ e \in {"agent", "ask", "reader"} /\ Emit(e, a)
  BY DEF EmitStep
<1>2. chat' = Applied(chat, a) /\ FlightAfter(e, a) /\ chat \in ChatT
  BY <1>1, EmitIs, FlightEntries
<1>3. active.id # t
  <2>1. active.id \in Ids(chat) \/ active.id = 0
    BY <1>2, ChatParts DEF Ids, active
  <2> QED BY <2>1 DEF Unused
<1>4. agent'.turn # t /\ ask'.turn # t
  BY <1>3 DEF EmitStep, Unused
<1>5. t \notin Ids(chat')
  <2>1. ASSUME NEW u \in TurnSet(chat'), u.id = t PROVE FALSE
    <3>1. u.id \in Ids(chat)
      BY <1>1, <1>2, <2>1, CallsAfter
    <3> QED BY <2>1, <3>1 DEF Unused
  <2> QED BY <2>1 DEF Ids
<1>6. ASSUME NEW j \in DOMAIN flight' PROVE flight'[j].msg.turn # t /\ t \notin Ids(flight'[j].was)
  <2>1. CASE flight' = flight
    BY <2>1 DEF Unused
  <2>2. CASE AddedTo(flight', flight, Entry(e, a))
    <3>1. PICK n \in Nat : /\ DOMAIN flight = 1..n /\ DOMAIN flight' = 1..n+1
                           /\ flight'[n+1] = Entry(e, a) /\ \A i \in 1..n : flight'[i] = flight[i]
      BY <2>2 DEF AddedTo
    <3>2. Entry(e, a).msg = a /\ Entry(e, a).was = chat
      BY DEF Entry
    <3>3. j \in 1..n \/ j = n + 1
      BY <3>1
    <3> QED BY <3>1, <3>2, <3>3 DEF Unused
  <2> QED BY <1>2, <2>1, <2>2 DEF FlightAfter
<1> QED BY <1>4, <1>5, <1>6 DEF Unused

-----------------------------------------------------------------------------
\* A step that applies an action keeps the names ...
LEMMA EmitFresh ==
  ASSUME HostInv, NEW e, NEW a, EmitStep(e, a)
  PROVE  UplinkGood' /\ ViewNames' /\ OwnFresh' /\ StartsFresh'
<1>0. TypesRight /\ UplinkGood /\ ViewNames /\ OwnFresh /\ StartsFresh
  BY DEF HostInv
<1>1. count.turn \in Nat /\ count'.turn \in Nat /\ count.turn <= count'.turn /\ view' = view
  BY DEF EmitStep, Grows, More, clientVars
<1>2. PICK m \in Nat, n \in Nat : m = count.turn /\ n = count'.turn /\ m <= n
  BY <1>1
<1>3. \A k \in DOMAIN uplink' : \E i \in DOMAIN uplink :
            /\ uplink'[k] = uplink[i]
            /\ \A j \in 1..k - 1 : \E h \in 1..i - 1 : uplink'[j] = uplink[h]
            /\ uplink[i].type = "turnStarted" => uplink[i].turn # a.turn
  BY <1>0, UplinkLeft DEF EmitStep
<1>4. UplinkGood'
  <2>1. ASSUME NEW k \in DOMAIN uplink'
        PROVE  uplink'[k].turn \in 0..n /\ (uplink'[k].type # "subscribe" => uplink'[k].turn # 0)
    <3>1. PICK i \in DOMAIN uplink : uplink'[k] = uplink[i]
      BY <1>3
    <3>2. uplink[i].turn \in 0..m /\ (uplink[i].type # "subscribe" => uplink[i].turn # 0)
      BY <1>0, <1>2 DEF UplinkGood
    <3> QED BY <1>2, <3>1, <3>2
  <2> QED BY <1>2, <2>1 DEF UplinkGood
<1>5. ViewNames'
  BY <1>0, <1>1, <1>2 DEF ViewNames
<1>6. OwnFresh'
  <2>1. ASSUME NEW k \in DOMAIN uplink', uplink'[k].type = "turnStarted"
        PROVE  /\ uplink'[k].turn \notin Ids(chat') /\ agent'.turn # uplink'[k].turn /\ ask'.turn # uplink'[k].turn
               /\ \A j \in DOMAIN flight' : flight'[j].msg.turn # uplink'[k].turn /\ uplink'[k].turn \notin Ids(flight'[j].was)
               /\ \A j \in 1..k - 1 : uplink'[j].turn # uplink'[k].turn
    <3>1. PICK i \in DOMAIN uplink : 
            /\ uplink'[k] = uplink[i]
            /\ \A j \in 1..k - 1 : \E h \in 1..i - 1 : uplink'[j] = uplink[h]
            /\ uplink[i].type = "turnStarted" => uplink[i].turn # a.turn
      BY <1>3
    <3>2. PICK t \in Nat : t = uplink[i].turn /\ t # 0
      BY <1>0, <1>2, <2>1, <3>1 DEF UplinkGood
    <3>3. Unused(t) /\ t # a.turn /\ \A h \in 1..i - 1 : uplink[h].turn # t
      BY <1>0, <2>1, <3>1, <3>2 DEF OwnFresh
    <3>4. Unused(t)'
      BY <1>0, <3>2, <3>3, EmitUnused
    <3>5. t = uplink'[k].turn
      BY <3>1, <3>2
    <3>6. /\ uplink'[k].turn \notin Ids(chat') /\ agent'.turn # uplink'[k].turn /\ ask'.turn # uplink'[k].turn
          /\ \A j \in DOMAIN flight' : flight'[j].msg.turn # uplink'[k].turn /\ uplink'[k].turn \notin Ids(flight'[j].was)
      BY <3>4, <3>5 DEF Unused
    <3> QED BY <3>1, <3>3, <3>5, <3>6
  <2> QED BY <2>1 DEF OwnFresh, Unused
<1>7. StartsFresh'
  <2>0. FlightAfter(e, a)
    BY <1>0, EmitIs DEF EmitStep
  <2>1. CASE flight' = flight
    BY <1>0, <2>1 DEF StartsFresh
  <2>2. CASE AddedTo(flight', flight, Entry(e, a))
    <3>1. PICK l \in Nat : /\ DOMAIN flight = 1..l /\ DOMAIN flight' = 1..l+1
                           /\ flight'[l+1] = Entry(e, a) /\ \A i \in 1..l : flight'[i] = flight[i]
      BY <2>2 DEF AddedTo
    <3>2. Entry(e, a).msg = a
      BY DEF Entry
    <3>3. ASSUME NEW k \in DOMAIN flight', flight'[k].msg.type = "turnStarted", NEW j \in 1..k - 1
          PROVE  /\ flight'[j].msg.turn # flight'[k].msg.turn
                 /\ flight'[k].msg.turn \notin Ids(flight'[j].was)
      <4>1. CASE k \in 1..l
        <5>1. j \in 1..l /\ k \in DOMAIN flight /\ flight'[j] = flight[j] /\ flight'[k] = flight[k]
          BY <3>1, <4>1
        <5> QED BY <1>0, <3>3, <5>1 DEF StartsFresh
      <4>2. CASE k = l + 1
        <5>1. j \in DOMAIN flight /\ flight'[j] = flight[j] /\ flight'[k].msg = a /\ a.type = "turnStarted"
          BY <3>1, <3>2, <3>3, <4>2
        <5> QED BY <5>1 DEF EmitStep
      <4> QED BY <3>1, <4>1, <4>2
    <3> QED BY <3>3 DEF StartsFresh
  <2> QED BY <2>0, <2>1, <2>2 DEF FlightAfter
<1> QED BY <1>4, <1>5, <1>6, <1>7

\* ... what is known of the request ...
LEMMA EmitRequest ==
  ASSUME HostInv, NEW e, NEW a, EmitStep(e, a)
  PROVE  RequestGood'
<1>0. TypesRight /\ RequestGood
  BY DEF HostInv
<1>1. Permission' = Permission /\ view' = view /\ a \in ActionT /\ a.turn # 0
  BY DEF EmitStep, Permission, clientVars
<1>2. ASSUME ask'.step # "waiting" PROVE Unasked'
  <2>1. Unasked /\ ~Asks(a, Permission)
    BY <1>0, <1>2 DEF EmitStep, RequestGood
  <2>2. chat' = Applied(chat, a) /\ FlightAfter(e, a) /\ chat \in ChatT
    BY <1>0, EmitIs, FlightEntries DEF EmitStep
  <2>3. a.type = "toolCallComplete" => a.note # "pending-confirmation"
    <3>1. Says(a, count'.turn, count'.tool, Permission)
      BY DEF EmitStep, MessageGood, Entry
    <3> QED BY <3>1 DEF Says
  <2>4. NoPending(chat')
    BY <1>1, <2>1, <2>2, <2>3, PendingAfter DEF Unasked
  <2>5. ASSUME NEW k \in DOMAIN flight' PROVE ~Asks(flight'[k].msg, Permission) /\ NoPending(flight'[k].was)
    <3>1. CASE flight' = flight
      BY <2>1, <3>1 DEF Unasked
    <3>2. CASE AddedTo(flight', flight, Entry(e, a))
      <4>1. PICK l \in Nat : /\ DOMAIN flight = 1..l /\ DOMAIN flight' = 1..l+1
                             /\ flight'[l+1] = Entry(e, a) /\ \A i \in 1..l : flight'[i] = flight[i]
        BY <3>2 DEF AddedTo
      <4>2. Entry(e, a).msg = a /\ Entry(e, a).was = chat
        BY DEF Entry
      <4>3. k \in 1..l \/ k = l + 1
        BY <4>1
      <4> QED BY <2>1, <4>1, <4>2, <4>3 DEF Unasked
    <3> QED BY <2>2, <3>1, <3>2 DEF FlightAfter
  <2>6. ASSUME NEW k \in DOMAIN uplink' PROVE uplink'[k].type # "toolCallConfirmed"
    <3>1. PICK i \in DOMAIN uplink : uplink'[k] = uplink[i]
      BY <1>0, UplinkLeft DEF EmitStep
    <3> QED BY <2>1, <3>1 DEF Unasked
  <2>7. \A i \in DOMAIN view'.rows : view'.rows[i].kind # "approval"
    BY <1>1, <2>1 DEF Unasked
  <2> QED BY <1>1, <2>4, <2>5, <2>6, <2>7 DEF Unasked
<1> QED BY <1>0, <1>1, <1>2 DEF RequestGood

\* ... and so the invariant.
LEMMA EmitKeeps ==
  ASSUME HostInv, TypesRight', NEW e, NEW a, EmitStep(e, a)
  PROVE  HostInv'
<1>0. TypesRight /\ HostGood /\ AskGood
  BY DEF HostInv
<1>1. HostGood'
  BY <1>0, EmitGood DEF EmitStep
<1>2. chat' = Applied(chat, a) /\ Permission' = Permission
  BY <1>0, EmitIs DEF EmitStep, Permission
<1>3. AgentGood'
  BY <1>2 DEF EmitStep, AgentGood, active
<1>4. AskGood'
  BY <1>0, <1>2 DEF EmitStep, AskGood
<1> QED BY <1>1, <1>3, <1>4, EmitFresh, EmitRequest DEF HostInv

-----------------------------------------------------------------------------
\* What the invariant says of the numbers and of the active turn.
LEMMA HostFacts ==
  ASSUME HostInv
  PROVE  /\ TypesRight /\ HostGood /\ AgentGood /\ AskGood
         /\ count.turn \in Nat /\ count.tool \in Nat /\ Permission \in Nat
         /\ chat \in ChatT /\ active \in TurnT /\ active = chat.active
         /\ Permission = ask.tool /\ Permission \in 0..count.tool
         /\ active.id # 0 => active \in TurnSet(chat) /\ active.id \in 1..count.turn
         /\ active.id # 0 => TurnGood(active, count.tool, Permission, ask.turn)
         /\ active.id = 0 => active.parts = << >>
         /\ agent.turn \in 0..count.turn /\ ask.turn \in 0..count.turn
<1>1. TypesRight /\ HostGood /\ AgentGood /\ AskGood
  BY DEF HostInv
<1>2. /\ count.turn \in Nat /\ count.tool \in Nat /\ Permission \in Nat
      /\ chat \in ChatT /\ active = chat.active /\ Permission = ask.tool
  BY <1>1, FlightEntries DEF active, Permission
<1>3. active \in TurnT /\ (active.id # 0 => active \in TurnSet(chat))
  BY <1>2, ChatParts
<1>4. ChatGood(chat, count.turn, count.tool, Permission, ask.turn)
  BY <1>1 DEF HostGood
<1>5. active.id # 0 => active.id \in 1..count.turn /\ TurnGood(active, count.tool, Permission, ask.turn)
  BY <1>3, <1>4 DEF ChatGood
<1>6. active.id = 0 => active.parts = << >>
  BY <1>2, <1>4 DEF ChatGood, Resting, NoTurn
<1>7. agent.turn \in 0..count.turn /\ ask.turn \in 0..count.turn
  BY <1>1 DEF AgentGood, AskGood, AgentFits, AskFits
<1>8. Permission \in 0..count.tool
  <2>1. CASE ask.step = "idle"
    <3>1. ask.tool = 0
      BY <1>1, <2>1 DEF AskGood, AskFits, AskIdle
    <3> QED BY <1>2, <3>1
  <2>2. CASE ask.step # "idle"
    BY <1>1, <1>2, <2>2 DEF AskGood, AskFits
  <2> QED BY <2>1, <2>2
<1> QED BY <1>1, <1>2, <1>3, <1>5, <1>6, <1>7, <1>8

\* A turn the host works on is not one the window is about to start.
LEMMA KnownTurn ==
  ASSUME HostInv, NEW t \in {active.id, agent.turn, ask.turn}, t # 0, NEW k \in DOMAIN uplink,
         uplink[k].type = "turnStarted"
  PROVE  uplink[k].turn # t
<1>1. Unused(uplink[k].turn)
  BY DEF HostInv, OwnFresh
<1>2. active.id # 0 => active.id \in Ids(chat)
  BY HostFacts DEF Ids
<1> QED BY <1>1, <1>2 DEF Unused

\* A goroutine that waits knows nothing that could become false.
LEMMA IdleFits ==
  ASSUME NEW t, NEW m \in Nat, NEW n, NEW p
  PROVE  AgentFits(AgentIdle, t, m, n, p) /\ AgentIdle.turn = 0 /\ AgentIdle.step = "idle"
BY DEF AgentFits, AgentIdle

\* More numbers leave what the goroutine of the request knows true.
LEMMA AskMore ==
  ASSUME NEW k, NEW c, NEW m \in Nat, NEW n \in Nat, NEW m2 \in Nat, NEW n2 \in Nat,
         m <= m2, n <= n2, AskFits(k, c, m, n)
  PROVE  AskFits(k, c, m2, n2)
BY DEF AskFits

\* The goroutine of the events applies an action.
LEMMA AgentSteps ==
  ASSUME HostInv, NEW a \in ActionT, Emit("agent", a),
         a.type \in {"responsePart", "delta", "toolCallStart", "toolCallReady", "toolCallComplete",
                     "turnComplete", "error"},
         a.turn \in {active.id, agent.turn}, a.turn # 0,
         count'.turn = count.turn, count'.tool \in {count.tool, count.tool + 1},
         Says(a, count.turn, count'.tool, Permission), Meets(a, chat, Permission),
         a.type \in {"toolCallStart", "toolCallReady", "toolCallComplete"} => a.tool # Permission,
         AgentFits(agent', Applied(chat, a).active, count.turn, count'.tool, Permission),
         agent'.turn \in {0, a.turn},
         agent'.step = "toolCallReady" =>
            a.type = "toolCallStart" /\ agent'.turn = a.turn /\ agent'.tool = a.tool,
         ask' = ask, registered' = registered, subscribed' = subscribed, uplink' = uplink,
         UNCHANGED clientVars
  PROVE  EmitStep("agent", a)
<1>1. /\ TypesRight /\ count.turn \in Nat /\ count.tool \in Nat /\ Permission \in Nat /\ chat \in ChatT
      /\ Permission = ask.tool /\ AskGood
  BY HostFacts
<1>2. PICK n \in Nat : n = count'.tool /\ count.tool <= n
  BY <1>1
<1>3. Grows(count'.turn, count'.tool, Permission, ask.turn)
  BY <1>1, <1>2 DEF Grows, More
<1>4. Entry("agent", a).msg = a /\ Entry("agent", a).was = chat /\ Entry("agent", a).from = "agent"
      /\ Entry("agent", a).odd = (a.type # "snapshot" /\ Odd(a))
  BY DEF Entry
<1>5. SentBy(Entry("agent", a), Permission, ask.turn)
  BY <1>4 DEF SentBy
<1>6. IsOdd(Entry("agent", a))
  BY <1>4 DEF IsOdd, Odd, active
<1>7. MessageGood(Entry("agent", a), count'.turn, count'.tool, Permission, ask.turn)
  BY <1>4, <1>5, <1>6 DEF MessageGood
<1>8. AskFits(ask, Applied(chat, a), count.turn, count.tool)
  BY <1>1, RequestKeeps DEF AskGood
<1>9. AskFits(ask', Applied(chat, a), count'.turn, count'.tool)
  <2>1. AskFits(ask, Applied(chat, a), count.turn, n)
    BY <1>1, <1>2, <1>8, AskMore
  <2> QED BY <1>2, <2>1
<1>10. UplinkStep(a)
  BY KnownTurn DEF UplinkStep
<1>11. ~Asks(a, Permission)
  BY DEF Asks
<1>12. Answering(a)
  BY DEF Answering
<1> QED BY <1>3, <1>7, <1>9, <1>10, <1>11, <1>12 DEF EmitStep

\* The turn an event is taken for.
LEMMA EventFacts ==
  ASSUME HostInv, TakesEvent
  PROVE  /\ EventTurn \in 1..count.turn /\ EventTurn \in {active.id, agent.turn}
         /\ EventTurn # 0
BY HostFacts DEF TakesEvent, EventTurn

-----------------------------------------------------------------------------
\* Steps of the event goroutine: text ...
LEMMA TextStep ==
  ASSUME HostInv, AgentText
  PROVE  \E a : EmitStep("agent", a)
<1>1. /\ HostT /\ TypesRight /\ count.turn \in Nat /\ count.tool \in Nat /\ Permission \in Nat /\ chat \in ChatT
      /\ AgentGood /\ active \in TurnT /\ active = chat.active
  BY HostFacts DEF TypesRight
<1>2. PICK t \in Nat : t = EventTurn
  BY <1>1, SdkType DEF TypesRight
<1>3. t \in {active.id, agent.turn} /\ t # 0 /\ t \in 1..count.turn
  <2>1. CASE TakesEvent
    BY <1>2, <2>1, EventFacts
  <2>2. CASE agent.step = "delta"
    <3>1. t = agent.turn /\ t # 0
      BY <1>1, <1>2, <2>2 DEF EventTurn, AgentGood, AgentFits
    <3> QED BY <3>1, HostFacts
  <2> QED BY <2>1, <2>2 DEF AgentText
<1>4. CASE agent.step # "delta" /\ ~HasText(active)
  <2>1. PICK a \in ActionT : a = Action("responsePart", t, 0, "")
    <3>1. "responsePart" \in Types /\ "" \in Words /\ 0 \in Nat
      BY DEF Types, Words
    <3> QED BY <3>1, ActionType
  <2>2. a.type = "responsePart" /\ a.turn = t /\ a.tool = 0 /\ a.text = << >>
    BY <2>1 DEF Action
  <2>3. /\ Emit("agent", a) /\ agent' = [AgentIdle EXCEPT !.step = "delta", !.turn = t]
        /\ count' = count /\ ask' = ask /\ registered' = registered /\ subscribed' = subscribed
        /\ uplink' = uplink /\ UNCHANGED clientVars
    BY <1>2, <1>4, <2>1 DEF AgentText
  <2>4. agent'.turn = t /\ agent'.step = "delta"
    BY <2>3 DEF AgentIdle
  <2>5. Says(a, count.turn, count'.tool, Permission)
    BY <1>3, <2>2 DEF Says, Settles
  <2>6. Meets(a, chat, Permission)
    BY <1>1, <1>4, <2>2 DEF Meets
  <2>7. t = Applied(chat, a).active.id => HasText(Applied(chat, a).active)
    <3>1. ~Ends(a)
      BY <2>2 DEF Ends
    <3>2. CASE t = active.id
      <4>1. Applied(chat, a).active = Reduced(active, a)
        BY <1>1, <2>2, <3>1, <3>2, ActiveAfter
      <4> QED BY <1>1, <2>2, <4>1, ReducedKeeps
    <3>3. CASE t # active.id
      <4>1. Applied(chat, a).active = active
        BY <1>1, <2>2, <3>3, ActiveAfter
      <4> QED BY <3>3, <4>1
    <3> QED BY <3>2, <3>3
  <2>8. AgentFits(agent', Applied(chat, a).active, count.turn, count'.tool, Permission)
    BY <1>1, <1>3, <2>4, <2>7 DEF AgentFits
  <2>9. EmitStep("agent", a)
    BY <1>3, <2>2, <2>3, <2>4, <2>5, <2>6, <2>8, AgentSteps
  <2> QED BY <2>9
<1>5. CASE ~(agent.step # "delta" /\ ~HasText(active))
  <2>0. count.chunk \in Nat
    BY <1>1, CountSteps, ActiveType
  <2>1. PICK a \in ActionT : a = [Action("delta", t, 0, "") EXCEPT !.text = <<count.chunk + 1>>]
    BY <2>0, DeltaType
  <2>2. a.type = "delta" /\ a.turn = t /\ a.tool = 0
    BY <2>1 DEF Action
  <2>3. /\ Emit("agent", a) /\ agent' = AgentIdle
        /\ count' = [count EXCEPT !.chunk = @ + 1]
        /\ ask' = ask /\ registered' = registered /\ subscribed' = subscribed
        /\ uplink' = uplink /\ UNCHANGED clientVars
    BY <1>2, <1>5, <2>1 DEF AgentText
  <2>4. count'.turn = count.turn /\ count'.tool = count.tool
    BY <1>1, <2>3 DEF HostT, CountT
  <2>5. Says(a, count.turn, count'.tool, Permission)
    BY <1>3, <2>2 DEF Says, Settles
  <2>6. t = active.id => HasText(active)
    BY <1>1, <1>2, <1>5 DEF AgentGood, AgentFits, EventTurn
  <2>7. Meets(a, chat, Permission)
    BY <1>1, <2>2, <2>6 DEF Meets
  <2>8. AgentFits(agent', Applied(chat, a).active, count.turn, count'.tool, Permission) /\ agent'.turn = 0 /\ agent'.step = "idle"
    BY <1>1, <2>3, IdleFits
  <2>9. EmitStep("agent", a)
    BY <1>3, <2>2, <2>3, <2>4, <2>5, <2>7, <2>8, AgentSteps
  <2> QED BY <2>9
<1> QED BY <1>4, <1>5

\* ... the start of a call ...
LEMMA ToolStartStep ==
  ASSUME HostInv, AgentStartsTool
  PROVE  \E a : EmitStep("agent", a)
<1>1. /\ HostT /\ TypesRight /\ count.turn \in Nat /\ count.tool \in Nat /\ Permission \in 0..count.tool /\ chat \in ChatT
      /\ active \in TurnT /\ active = chat.active /\ HostGood
  BY HostFacts DEF TypesRight
<1>2. PICK t \in Nat : t = EventTurn /\ t \in {active.id, agent.turn} /\ t # 0 /\ t \in 1..count.turn
  <2>1. TakesEvent
    BY DEF AgentStartsTool
  <2>2. EventTurn \in 1..count.turn /\ EventTurn \in {active.id, agent.turn} /\ EventTurn # 0
    BY <2>1, EventFacts
  <2>3. EventTurn \in Nat
    BY <1>1, <2>2
  <2> QED BY <2>2, <2>3
<1>3. PICK k \in Nat : k = count.tool + 1 /\ k # Permission /\ k # 0
  BY <1>1
<1>4. PICK a \in ActionT : a = Action("toolCallStart", t, k, "")
  <2>1. "toolCallStart" \in Types /\ "" \in Words
    BY DEF Types, Words
  <2> QED BY <2>1, ActionType
<1>5. a.type = "toolCallStart" /\ a.turn = t /\ a.tool = k /\ a.text = << >>
  BY <1>4 DEF Action
<1>6. /\ Emit("agent", a) /\ agent' = [step |-> "toolCallReady", turn |-> t, tool |-> k]
      /\ count' = [count EXCEPT !.tool = k]
      /\ ask' = ask /\ registered' = registered /\ subscribed' = subscribed
      /\ uplink' = uplink /\ UNCHANGED clientVars
  BY <1>2, <1>3, <1>4 DEF AgentStartsTool
<1>7. count'.turn = count.turn /\ count'.tool = k
  BY <1>1, <1>6 DEF HostT, CountT
<1>8. Says(a, count.turn, k, Permission)
  BY <1>2, <1>3, <1>5 DEF Says, Settles
<1>9. ASSUME NEW u \in TurnSet(chat), HasCall(u, k) PROVE FALSE
  <2>1. TurnGood(u, count.tool, Permission, ask.turn)
    BY <1>1 DEF HostGood, ChatGood
  <2>2. PICK i \in DOMAIN u.parts : u.parts[i].kind = "tool" /\ u.parts[i].tool = k
    BY <1>9 DEF HasCall
  <2>3. k \in 1..count.tool
    BY <2>1, <2>2 DEF TurnGood, PartGood
  <2> QED BY <1>1, <1>3, <2>3
<1>10. Meets(a, chat, Permission)
  BY <1>1, <1>5, <1>9 DEF Meets
<1>11. t = Applied(chat, a).active.id => CallIn(Applied(chat, a).active, k, "streaming")
  <2>1. ~Ends(a)
    BY <1>5 DEF Ends
  <2>2. CASE t = active.id
    <3>1. Applied(chat, a).active = Reduced(active, a)
      BY <1>1, <1>5, <2>1, <2>2, ActiveAfter
    <3> QED BY <1>1, <1>5, <3>1, ReducedKeeps
  <2>3. CASE t # active.id
    <3>1. Applied(chat, a).active = active
      BY <1>1, <1>5, <2>3, ActiveAfter
    <3> QED BY <2>3, <3>1
  <2> QED BY <2>2, <2>3
<1>12. AgentFits(agent', Applied(chat, a).active, count.turn, k, Permission)
  BY <1>1, <1>2, <1>3, <1>6, <1>11 DEF AgentFits
<1>14. agent'.turn = t /\ agent'.tool = k
  BY <1>6
<1>13. EmitStep("agent", a)
  BY <1>1, <1>2, <1>3, <1>5, <1>6, <1>7, <1>8, <1>10, <1>12, <1>14, AgentSteps
<1> QED BY <1>13

\* ... its input ...
LEMMA ToolReadyStep ==
  ASSUME HostInv, AgentToolReady
  PROVE  \E a : EmitStep("agent", a)
<1>1. /\ HostT /\ TypesRight /\ count.turn \in Nat /\ count.tool \in Nat /\ chat \in ChatT
      /\ active = chat.active /\ AgentGood
  BY HostFacts DEF TypesRight
<1>2. PICK t \in Nat, k \in Nat : /\ t = agent.turn /\ k = agent.tool /\ t # 0 /\ t \in 1..count.turn
                                  /\ k \in 1..count.tool /\ k # Permission
                                  /\ t = active.id => CallIn(active, k, "streaming")
  BY <1>1, HostFacts, SdkType DEF AgentGood, AgentFits, AgentToolReady, TypesRight
<1>3. PICK input \in Inputs : Emit("agent", Action("toolCallReady", t, k, input))
  BY <1>2 DEF AgentToolReady
<1>4. input \in {"command", "opaque"} /\ input \in Words
  BY ChatAssumption, ChatConstants
<1>5. PICK a \in ActionT : a = Action("toolCallReady", t, k, input)
  <2>1. "toolCallReady" \in Types
    BY DEF Types
  <2> QED BY <1>4, <2>1, ActionType
<1>6. a.type = "toolCallReady" /\ a.turn = t /\ a.tool = k /\ a.text = << >> /\ a.note = input
  BY <1>5 DEF Action
<1>7. /\ Emit("agent", a) /\ agent' = AgentIdle /\ count' = count
      /\ ask' = ask /\ registered' = registered /\ subscribed' = subscribed
      /\ uplink' = uplink /\ UNCHANGED clientVars
  BY <1>3, <1>5 DEF AgentToolReady
<1>8. Says(a, count.turn, count.tool, Permission)
  BY <1>2, <1>4, <1>6 DEF Says, Settles
<1>9. CallIn(active, k, "streaming") => HasCall(active, k)
  BY DEF CallIn, HasCall
<1>10. Meets(a, chat, Permission)
  BY <1>1, <1>2, <1>6, <1>9 DEF Meets
<1>11. AgentFits(agent', Applied(chat, a).active, count.turn, count'.tool, Permission) /\ agent'.turn = 0 /\ agent'.step = "idle"
  BY <1>1, <1>7, IdleFits
<1>12. EmitStep("agent", a)
  BY <1>1, <1>2, <1>6, <1>7, <1>8, <1>10, <1>11, AgentSteps
<1> QED BY <1>12

\* ... its result ...
LEMMA ToolCompleteStep ==
  ASSUME HostInv, AgentToolComplete
  PROVE  \E a : EmitStep("agent", a)
<1>1. /\ HostT /\ TypesRight /\ count.turn \in Nat /\ count.tool \in Nat /\ chat \in ChatT
      /\ active = chat.active /\ AgentGood /\ active \in TurnT
      /\ active.id # 0 => TurnGood(active, count.tool, Permission, ask.turn)
      /\ active.id = 0 => active.parts = << >>
  BY HostFacts DEF TypesRight
<1>2. PICK t \in Nat : t = EventTurn /\ t \in {active.id, agent.turn} /\ t # 0 /\ t \in 1..count.turn
  <2>1. TakesEvent
    BY DEF AgentToolComplete
  <2>2. EventTurn \in 1..count.turn /\ EventTurn \in {active.id, agent.turn} /\ EventTurn # 0
    BY <2>1, EventFacts
  <2>3. EventTurn \in Nat
    BY <1>1, <2>2
  <2> QED BY <2>2, <2>3
<1>3. PICK p \in ToSet(active.parts), status \in Outcomes :
          /\ p.status = "running" /\ p.tool # Permission
          /\ Emit("agent", Action("toolCallComplete", t, p.tool, status))
  BY <1>2 DEF AgentToolComplete
<1>4. status \in {"completed", "failed"} /\ status \in Words
  BY ChatAssumption, ChatConstants
<1>5. PICK i \in DOMAIN active.parts : p = active.parts[i]
  BY DEF ToSet
<1>6. p \in PartT /\ active.id # 0
  BY <1>1, <1>5, PartsOf
<1>7. p.kind = "tool" /\ p.tool \in 1..count.tool /\ p.tool \in Nat
  BY <1>1, <1>3, <1>5, <1>6 DEF TurnGood, PartGood, PartT
<1>8. PICK k \in Nat : k = p.tool
  BY <1>7
<1>9. CallIn(active, k, "running")
  BY <1>3, <1>5, <1>7, <1>8 DEF CallIn
<1>10. PICK a \in ActionT : a = Action("toolCallComplete", t, k, status)
  <2>1. "toolCallComplete" \in Types
    BY DEF Types
  <2> QED BY <1>4, <2>1, ActionType
<1>11. a.type = "toolCallComplete" /\ a.turn = t /\ a.tool = k /\ a.text = << >> /\ a.note = status
  BY <1>10 DEF Action
<1>12. /\ Emit("agent", a) /\ agent' = AgentIdle /\ count' = count
      /\ ask' = ask /\ registered' = registered /\ subscribed' = subscribed
      /\ uplink' = uplink /\ UNCHANGED clientVars
  BY <1>3, <1>8, <1>10 DEF AgentToolComplete
<1>13. Says(a, count.turn, count.tool, Permission)
  BY <1>2, <1>4, <1>7, <1>8, <1>11 DEF Says, Settles
<1>14. Meets(a, chat, Permission)
  BY <1>1, <1>9, <1>11 DEF Meets
<1>15. AgentFits(agent', Applied(chat, a).active, count.turn, count'.tool, Permission) /\ agent'.turn = 0 /\ agent'.step = "idle"
  BY <1>1, <1>12, IdleFits
<1>16. EmitStep("agent", a)
  BY <1>1, <1>2, <1>3, <1>8, <1>11, <1>12, <1>13, <1>14, <1>15, AgentSteps
<1> QED BY <1>16

\* ... and the end of the turn.
LEMMA EndsStep ==
  ASSUME HostInv, AgentEnds
  PROVE  \E a : EmitStep("agent", a)
<1>1. /\ HostT /\ TypesRight /\ count.turn \in Nat /\ count.tool \in Nat /\ chat \in ChatT
      /\ active = chat.active
  BY HostFacts DEF TypesRight
<1>2. PICK t \in Nat : t = EventTurn /\ t \in {active.id, agent.turn} /\ t # 0 /\ t \in 1..count.turn
  <2>1. TakesEvent
    BY DEF AgentEnds
  <2>2. EventTurn \in 1..count.turn /\ EventTurn \in {active.id, agent.turn} /\ EventTurn # 0
    BY <2>1, EventFacts
  <2>3. EventTurn \in Nat
    BY <1>1, <2>2
  <2> QED BY <2>2, <2>3
<1>3. PICK type \in {"turnComplete", "error"} : Emit("agent", Action(type, t, 0, ""))
  BY <1>2 DEF AgentEnds
<1>4. PICK a \in ActionT : a = Action(type, t, 0, "")
  <2>1. type \in Types /\ "" \in Words /\ 0 \in Nat
    BY DEF Types, Words
  <2> QED BY <2>1, ActionType
<1>5. a.type = type /\ a.turn = t /\ a.tool = 0 /\ a.text = << >>
  BY <1>4 DEF Action
<1>6. /\ Emit("agent", a) /\ agent' = AgentIdle /\ count' = count
      /\ ask' = ask /\ registered' = registered /\ subscribed' = subscribed
      /\ uplink' = uplink /\ UNCHANGED clientVars
  BY <1>3, <1>4 DEF AgentEnds
<1>7. Says(a, count.turn, count.tool, Permission)
  BY <1>2, <1>5 DEF Says, Settles
<1>8. Meets(a, chat, Permission)
  BY <1>5 DEF Meets
<1>9. AgentFits(agent', Applied(chat, a).active, count.turn, count'.tool, Permission) /\ agent'.turn = 0 /\ agent'.step = "idle"
  BY <1>1, <1>6, IdleFits
<1>10. EmitStep("agent", a)
  BY <1>1, <1>2, <1>5, <1>6, <1>7, <1>8, <1>9, AgentSteps
<1> QED BY <1>10

-----------------------------------------------------------------------------
\* More turns leave what the goroutine of the events knows true.
LEMMA AgentMore ==
  ASSUME NEW g, NEW t, NEW m \in Nat, NEW n, NEW p, NEW m2 \in Nat, m <= m2, AgentFits(g, t, m, n, p)
  PROVE  AgentFits(g, t, m2, n, p)
BY DEF AgentFits

\* Where the goroutine of the events may be when a turn is ended or replaced.
LEMMA WhenTurnEnds ==
  ASSUME HostInv, NEW a \in ActionT, a.type \notin Settles,
         a.type = "turnStarted" => a.turn # agent.turn, NEW g \in AgentWhenTurnEnds
  PROVE  /\ AgentFits(g, Applied(chat, a).active, count.turn, count.tool, Permission)
         /\ g.turn \in {agent.turn, active.id}
         /\ g.step = "toolCallReady" => g = agent
<1>1. /\ count.turn \in Nat /\ chat \in ChatT /\ active = chat.active /\ AgentGood
      /\ active.id # 0 => active.id \in 1..count.turn
  BY HostFacts
<1>2. CASE g = agent
  BY <1>1, <1>2, AgentKeeps DEF AgentGood, Settles
<1>3. CASE active.id # 0 /\ g = [AgentIdle EXCEPT !.step = "event", !.turn = active.id]
  <2>1. g.step = "event" /\ g.turn = active.id
    BY <1>3 DEF AgentIdle
  <2> QED BY <1>1, <1>3, <2>1 DEF AgentFits
<1> QED BY <1>2, <1>3 DEF AgentWhenTurnEnds

\* The goroutine of the request applies an action.
LEMMA RequestStep ==
  ASSUME HostInv, AskEmits
  PROVE  \E a : EmitStep("ask", a)
<1>1. /\ TypesRight /\ count.turn \in Nat /\ count.tool \in Nat /\ chat \in ChatT
      /\ active = chat.active /\ AgentGood /\ AskGood /\ Permission = ask.tool
      /\ AskFits(ask, chat, count.turn, count.tool) /\ ask \in AskT
  BY HostFacts DEF TypesRight, SdkT, AskGood
<1>2. ask.step \in {"toolCallStart", "toolCallReady"}
  BY DEF AskEmits
<1>3. PICK t \in Nat, k \in Nat : /\ t = ask.turn /\ k = Permission /\ k = ask.tool
                                  /\ t \in 1..count.turn /\ k \in 1..count.tool
  BY <1>1, <1>2, HostFacts DEF AskFits
<1>4. PICK a \in ActionT : a = Action(ask.step, t, k, "command")
  <2>1. ask.step \in Types /\ "command" \in Words
    BY <1>2 DEF Types, Words
  <2> QED BY <2>1, ActionType
<1>5. a.type = ask.step /\ a.turn = t /\ a.tool = k /\ a.text = << >> /\ a.note = "command"
  BY <1>4 DEF Action
<1>6. /\ Emit("ask", a) /\ agent' = agent /\ count' = count /\ registered' = registered
      /\ subscribed' = subscribed /\ uplink' = uplink /\ UNCHANGED clientVars
      /\ ask' = [ask EXCEPT !.step = IF ask.step = "toolCallStart" THEN "toolCallReady" ELSE "waiting"]
  BY <1>3, <1>4 DEF AskEmits
<1>7. /\ ask'.turn = t /\ ask'.tool = k
      /\ ask.step = "toolCallStart" => ask'.step = "toolCallReady"
      /\ ask.step = "toolCallReady" => ask'.step = "waiting"
  BY <1>1, <1>3, <1>6 DEF AskT
<1>8. Says(a, count.turn, count.tool, Permission)
  BY <1>2, <1>3, <1>5 DEF Says, Settles
<1>9. Meets(a, chat, Permission)
  BY <1>1, <1>2, <1>3, <1>5 DEF Meets, AskFits
<1>10. Entry("ask", a).msg = a /\ Entry("ask", a).was = chat /\ Entry("ask", a).from = "ask"
      /\ Entry("ask", a).odd = (a.type # "snapshot" /\ Odd(a))
  BY DEF Entry
<1>11. SentBy(Entry("ask", a), Permission, ask.turn)
  BY <1>2, <1>3, <1>5, <1>10 DEF SentBy
<1>12. IsOdd(Entry("ask", a))
  BY <1>10 DEF IsOdd, Odd, active
<1>13. MessageGood(Entry("ask", a), count'.turn, count'.tool, Permission, ask.turn)
  BY <1>6, <1>8, <1>9, <1>10, <1>11, <1>12 DEF MessageGood
<1>14. AgentFits(agent', Applied(chat, a).active, count'.turn, count'.tool, Permission)
  <2>1. agent.step = "toolCallReady" => agent.tool # k
    BY <1>1, <1>3 DEF AgentGood, AgentFits
  <2> QED BY <1>1, <1>2, <1>5, <1>6, <2>1, AgentKeeps DEF AgentGood
<1>15. AskFits(ask', Applied(chat, a), count'.turn, count'.tool)
  <2>0. PICK d : d = Applied(chat, a)
    OBVIOUS
  <2>1. t = d.active.id => HasCall(d.active, k)
    <3>1. ~Ends(a)
      BY <1>2, <1>5 DEF Ends
    <3>2. CASE t = active.id
      <4>1. d.active = Reduced(active, a)
        BY <1>1, <1>2, <1>5, <2>0, <3>1, <3>2, ActiveAfter
      <4>2. active \in TurnT /\ (ask.step = "toolCallReady" => HasCall(active, k))
        BY <1>1, <1>3, <3>2, HostFacts DEF AskFits
      <4> QED BY <1>2, <1>5, <4>1, <4>2, ReducedKeeps
    <3>3. CASE t # active.id
      <4>1. d.active = active
        BY <1>1, <1>2, <1>5, <2>0, <3>3, ActiveAfter
      <4> QED BY <3>3, <4>1
    <3> QED BY <3>2, <3>3
  <2> QED BY <1>1, <1>2, <1>3, <1>6, <1>7, <2>0, <2>1 DEF AskFits
<1>16. UplinkStep(a)
  <2>1. \A i \in DOMAIN uplink : uplink[i].type = "turnStarted" => uplink[i].turn # t
    BY <1>3, KnownTurn
  <2> QED BY <1>5, <1>6, <2>1 DEF UplinkStep
<1>17. ask'.step # "waiting" => ask.step # "waiting" /\ ~Asks(a, Permission)
  BY <1>2, <1>5, <1>7 DEF Asks
<1>18. Grows(count'.turn, count'.tool, Permission, ask.turn)
  BY <1>1, <1>6 DEF Grows, More
<1>19. Answering(a)
  BY <1>2, <1>5 DEF Answering
<1> QED BY <1>2, <1>3, <1>5, <1>6, <1>7, <1>13, <1>14, <1>15, <1>16, <1>17, <1>18, <1>19 DEF EmitStep

\* The reader applies an action.
LEMMA ReaderSteps ==
  ASSUME HostInv, NEW a \in ActionT, Emit("reader", a),
         a.type \in {"turnStarted", "turnCancelled", "toolCallConfirmed"},
         a.turn # 0, NEW m \in Nat, count'.turn = m, count.turn <= m, count'.tool = count.tool,
         Says(a, m, count.tool, Permission), Meets(a, chat, Permission),
         a.type = "turnStarted" => /\ a.turn \notin {ask.turn, agent.turn} /\ Startable(a.turn)
                                   /\ \A j \in DOMAIN flight : /\ flight[j].msg.turn # a.turn
                                                               /\ a.turn \notin Ids(flight[j].was),
         a.type = "toolCallConfirmed" => a.tool = Permission /\ a.turn = ask.turn /\ ask.step = "waiting",
         AgentFits(agent', Applied(chat, a).active, count.turn, count.tool, Permission),
         agent'.turn \in {agent.turn, active.id},
         agent'.step = "toolCallReady" => agent' = agent,
         UplinkStep(a), Answering(a), ask' = ask, registered' => registered, subscribed' = subscribed,
         UNCHANGED clientVars
  PROVE  EmitStep("reader", a)
<1>1. /\ TypesRight /\ count.turn \in Nat /\ count.tool \in Nat /\ Permission \in Nat /\ chat \in ChatT
      /\ AskFits(ask, chat, count.turn, count.tool)
  BY HostFacts DEF AskGood
<1>3. Grows(count'.turn, count'.tool, Permission, ask.turn)
  BY <1>1 DEF Grows, More
<1>4. Entry("reader", a).msg = a /\ Entry("reader", a).was = chat /\ Entry("reader", a).from = "reader"
      /\ Entry("reader", a).odd = (a.type # "snapshot" /\ Odd(a))
  BY DEF Entry
<1>5. SentBy(Entry("reader", a), Permission, ask.turn)
  BY <1>4 DEF SentBy
<1>6. IsOdd(Entry("reader", a))
  BY <1>4 DEF IsOdd, Odd, active
<1>7. MessageGood(Entry("reader", a), count'.turn, count'.tool, Permission, ask.turn)
  BY <1>4, <1>5, <1>6 DEF MessageGood
<1>8. AskFits(ask', Applied(chat, a), count'.turn, count'.tool)
  <2>1. AskFits(ask, Applied(chat, a), count.turn, count.tool)
    BY <1>1, RequestKeeps
  <2> QED BY <1>1, <2>1, AskMore
<1>9. AgentFits(agent', Applied(chat, a).active, count'.turn, count'.tool, Permission)
  BY <1>1, AgentMore
<1>10. ask'.step # "waiting" => ask.step # "waiting" /\ ~Asks(a, Permission)
  BY DEF Asks
<1> QED BY <1>3, <1>7, <1>8, <1>9, <1>10 DEF EmitStep

\* What the reader takes.
LEMMA TakenFacts ==
  ASSUME HostInv, NEW ty, ReaderTakes(ty)
  PROVE  /\ uplink # << >> /\ uplink' = Tail(uplink) /\ 1 \in DOMAIN uplink
         /\ Head(uplink) = uplink[1] /\ uplink[1] \in RequestT /\ uplink[1].type = ty
         /\ ty # "subscribe" => uplink[1].turn \in 1..count.turn
         /\ \A k \in DOMAIN uplink : k # 1 /\ uplink[k].type = "turnStarted" => uplink[k].turn # uplink[1].turn
<1>1. uplink \in Seq(RequestT) /\ UplinkGood /\ OwnFresh /\ count.turn \in Nat
  BY HostFacts DEF HostInv, TypesRight, NetT
<1>2. uplink # << >> /\ uplink' = Tail(uplink) /\ Head(uplink).type = ty
  BY DEF ReaderTakes
<1>3. 1 \in DOMAIN uplink /\ Head(uplink) = uplink[1] /\ uplink[1] \in RequestT
  BY <1>1, <1>2, Tails
<1>4. ty # "subscribe" => uplink[1].turn \in 1..count.turn
  BY <1>1, <1>2, <1>3 DEF UplinkGood
<1>5. ASSUME NEW k \in DOMAIN uplink, k # 1, uplink[k].type = "turnStarted"
      PROVE  uplink[k].turn # uplink[1].turn
  <2>1. k \in Nat /\ k > 1
    BY <1>1, <1>5, LenProperties
  <2>2. 1 \in 1..k - 1
    BY <2>1
  <2> QED BY <1>1, <1>5, <2>2 DEF OwnFresh
<1> QED BY <1>2, <1>3, <1>4, <1>5

\* Steps of the reader: a turn of the window ...
LEMMA StartStep ==
  ASSUME HostInv, HostStartsTurn
  PROVE  \E a : EmitStep("reader", a)
<1>1. /\ TypesRight /\ count.turn \in Nat /\ count.tool \in Nat /\ chat \in ChatT /\ active = chat.active
  BY HostFacts
<1>2. ReaderTakes("turnStarted")
  BY DEF HostStartsTurn
<1>3. PICK t \in Nat : t = uplink[1].turn /\ t \in 1..count.turn
  BY <1>1, <1>2, TakenFacts
<1>4. Unused(t)
  BY <1>2, <1>3, TakenFacts DEF HostInv, OwnFresh
<1>5. PICK a \in ActionT : a = Action("turnStarted", t, 0, "")
  <2>1. "turnStarted" \in Types /\ "" \in Words /\ 0 \in Nat
    BY DEF Types, Words
  <2> QED BY <2>1, ActionType
<1>6. a.type = "turnStarted" /\ a.turn = t /\ a.tool = 0 /\ a.text = << >>
  BY <1>5 DEF Action
<1>7. /\ Emit("reader", a) /\ agent' \in AgentWhenTurnEnds /\ count' = count /\ registered' = registered
      /\ subscribed' = subscribed /\ ask' = ask /\ UNCHANGED clientVars
  BY <1>2, <1>3, <1>5, TakenFacts DEF HostStartsTurn
<1>8. Says(a, count.turn, count.tool, Permission)
  BY <1>3, <1>6 DEF Says, Settles
<1>9. Meets(a, chat, Permission)
  <2>1. t \notin Ids(chat) /\ (active.id # 0 => active.id \in Ids(chat)) /\ t # 0
    BY <1>3, <1>4, HostFacts DEF Unused, Ids
  <2> QED BY <1>1, <1>6, <2>1 DEF Meets
<1>10. UplinkStep(a)
  BY <1>2, <1>3, <1>6, TakenFacts DEF UplinkStep
<1>11. /\ AgentFits(agent', Applied(chat, a).active, count.turn, count.tool, Permission)
       /\ agent'.turn \in {agent.turn, active.id}
       /\ agent'.step = "toolCallReady" => agent' = agent
  BY <1>4, <1>6, <1>7, WhenTurnEnds DEF Unused, Settles
<1>14. Startable(t)
  BY <1>2, <1>3, TakenFacts DEF Startable
<1>12. /\ t \notin {ask.turn, agent.turn}
       /\ \A j \in DOMAIN flight : flight[j].msg.turn # t /\ t \notin Ids(flight[j].was)
  BY <1>4 DEF Unused
<1>15. Answering(a)
  BY <1>6 DEF Answering
<1>13. EmitStep("reader", a)
  BY <1>1, <1>3, <1>6, <1>7, <1>8, <1>9, <1>10, <1>11, <1>12, <1>14, <1>15, ReaderSteps
<1> QED BY <1>13

\* ... its cancellation ...
LEMMA CancelStep ==
  ASSUME HostInv, HostCancelsTurn
  PROVE  \E a : EmitStep("reader", a)
<1>1. /\ TypesRight /\ count.turn \in Nat /\ count.tool \in Nat /\ chat \in ChatT /\ active = chat.active
  BY HostFacts
<1>2. ReaderTakes("turnCancelled")
  BY DEF HostCancelsTurn
<1>3. PICK t \in Nat : t = uplink[1].turn /\ t \in 1..count.turn
  BY <1>1, <1>2, TakenFacts
<1>5. PICK a \in ActionT : a = Action("turnCancelled", t, 0, "")
  <2>1. "turnCancelled" \in Types /\ "" \in Words /\ 0 \in Nat
    BY DEF Types, Words
  <2> QED BY <2>1, ActionType
<1>6. a.type = "turnCancelled" /\ a.turn = t /\ a.tool = 0 /\ a.text = << >>
  BY <1>5 DEF Action
<1>7. /\ Emit("reader", a) /\ agent' \in AgentWhenTurnEnds /\ count' = count /\ registered' = FALSE
      /\ subscribed' = subscribed /\ ask' = ask /\ UNCHANGED clientVars
  BY <1>2, <1>3, <1>5, TakenFacts DEF HostCancelsTurn
<1>8. Says(a, count.turn, count.tool, Permission)
  BY <1>3, <1>6 DEF Says, Settles
<1>9. Meets(a, chat, Permission)
  BY <1>6 DEF Meets
<1>10. UplinkStep(a)
  BY <1>2, <1>3, <1>6, TakenFacts DEF UplinkStep
<1>11. /\ AgentFits(agent', Applied(chat, a).active, count.turn, count.tool, Permission)
       /\ agent'.turn \in {agent.turn, active.id}
       /\ agent'.step = "toolCallReady" => agent' = agent
  BY <1>6, <1>7, WhenTurnEnds DEF Settles
<1>15. Answering(a)
  BY <1>6 DEF Answering
<1>13. EmitStep("reader", a)
  BY <1>1, <1>3, <1>6, <1>7, <1>8, <1>9, <1>10, <1>11, <1>15, ReaderSteps
<1> QED BY <1>13

\* ... a turn of another window ...
LEMMA OtherStep ==
  ASSUME HostInv, OtherStartsTurn
  PROVE  \E a : EmitStep("reader", a)
<1>1. /\ TypesRight /\ HostT /\ count.turn \in Nat /\ count.tool \in Nat /\ chat \in ChatT
      /\ active = chat.active /\ HostGood /\ AgentGood
      /\ agent.turn \in 0..count.turn /\ ask.turn \in 0..count.turn
  BY HostFacts DEF TypesRight
<1>2. PICK t \in Nat : t = count.turn + 1 /\ ~(t \in 0..count.turn) /\ t # 0 /\ count.turn <= t
  BY <1>1
<1>3. \A c : ChatGood(c, count.turn, count.tool, Permission, ask.turn) => t \notin Ids(c)
  BY <1>1, <1>2 DEF ChatGood, Ids
<1>4. \A j \in DOMAIN flight : flight[j].msg.turn # t /\ t \notin Ids(flight[j].was)
  <2>1. ASSUME NEW j \in DOMAIN flight PROVE flight[j].msg.turn \in 0..count.turn
    <3>1. Says(flight[j].msg, count.turn, count.tool, Permission)
      BY <1>1 DEF HostGood, WasGood, MessageGood
    <3> QED BY <1>1, <3>1 DEF Says
  <2> QED BY <1>1, <1>2, <1>3, <2>1 DEF HostGood, WasGood
<1>5. PICK a \in ActionT : a = Action("turnStarted", t, 0, "")
  <2>1. "turnStarted" \in Types /\ "" \in Words /\ 0 \in Nat
    BY DEF Types, Words
  <2> QED BY <2>1, ActionType
<1>6. a.type = "turnStarted" /\ a.turn = t /\ a.tool = 0 /\ a.text = << >>
  BY <1>5 DEF Action
<1>7. /\ Emit("reader", a) /\ agent' = agent /\ count' = [count EXCEPT !.turn = t] /\ registered' = registered
      /\ subscribed' = subscribed /\ ask' = ask /\ uplink' = uplink /\ UNCHANGED clientVars
  <2>1. count' = [count EXCEPT !.turn = count.turn + 1]
    BY DEF OtherStartsTurn
  <2> QED BY <1>2, <1>5, <2>1 DEF OtherStartsTurn, sdkVars
<1>8. count'.turn = t /\ count'.tool = count.tool
  BY <1>1, <1>7 DEF HostT, CountT
<1>9. Says(a, t, count.tool, Permission)
  BY <1>2, <1>6 DEF Says, Settles
<1>10. Meets(a, chat, Permission)
  <2>1. t \notin Ids(chat) /\ t # active.id
    BY <1>1, <1>2, <1>3 DEF HostGood, OtherStartsTurn
  <2> QED BY <1>1, <1>6, <2>1 DEF Meets
<1>11. UplinkStep(a)
  BY <1>1, <1>2, <1>6, <1>7 DEF UplinkStep, HostInv, UplinkGood
<1>12. AgentFits(agent', Applied(chat, a).active, count.turn, count.tool, Permission)
  BY <1>1, <1>2, <1>6, <1>7, AgentKeeps DEF AgentGood, Settles
<1>14. Startable(t)
  BY <1>2 DEF Startable
<1>15. Answering(a)
  BY <1>6 DEF Answering
<1>13. EmitStep("reader", a)
  BY <1>1, <1>2, <1>4, <1>6, <1>7, <1>8, <1>9, <1>10, <1>11, <1>12, <1>14, <1>15, ReaderSteps
<1> QED BY <1>13

\* ... an answer, which may come too late.
LEMMA ResolveStep ==
  ASSUME HostInv, ResolvePermission
  PROVE  \/ \E a : EmitStep("reader", a)
         \/ /\ ReaderTakes("toolCallConfirmed")
            /\ UNCHANGED <<chat, registered, flight, count, agent, ask, subscribed, clientVars>>
<1> SUFFICES ASSUME registered /\ ask.turn = Head(uplink).turn /\ subscribed
             PROVE  \E a : EmitStep("reader", a)
  BY DEF ResolvePermission
<1>1. /\ TypesRight /\ count.turn \in Nat /\ count.tool \in Nat /\ chat \in ChatT /\ active = chat.active
      /\ AgentGood /\ AskGood /\ Permission = ask.tool /\ Permission \in Nat
  BY HostFacts
<1>2. ReaderTakes("toolCallConfirmed")
  BY DEF ResolvePermission
<1>3. PICK t \in Nat, no \in Words : t = uplink[1].turn /\ t \in 1..count.turn /\ no = uplink[1].note /\ t = ask.turn
  BY <1>1, <1>2, TakenFacts DEF RequestT
<1>4. ask.step = "waiting"
  BY <1>2, TakenFacts DEF HostInv, RequestGood, Unasked
<1>5. PICK a \in ActionT : a = Action("toolCallConfirmed", t, Permission, no)
  <2>1. "toolCallConfirmed" \in Types
    BY DEF Types
  <2> QED BY <1>1, <2>1, ActionType
<1>6. a.type = "toolCallConfirmed" /\ a.turn = t /\ a.tool = Permission /\ a.text = << >>
  BY <1>5 DEF Action
<1>7. /\ Emit("reader", a) /\ agent' = agent /\ count' = count /\ registered' = FALSE
      /\ subscribed' = subscribed /\ ask' = ask /\ UNCHANGED clientVars
  BY <1>2, <1>3, <1>5, TakenFacts DEF ResolvePermission
<1>8. Says(a, count.turn, count.tool, Permission)
  BY <1>1, <1>3, <1>4, <1>6 DEF Says, Settles, AskGood, AskFits
<1>9. Meets(a, chat, Permission)
  BY <1>1, <1>3, <1>4, <1>6 DEF Meets, AskGood, AskFits
<1>10. UplinkStep(a)
  BY <1>2, <1>3, <1>6, TakenFacts DEF UplinkStep
<1>11. AgentFits(agent', Applied(chat, a).active, count.turn, count.tool, Permission)
  BY <1>1, <1>6, <1>7, AgentKeeps DEF AgentGood, AgentFits
<1>15. Answering(a)
  BY <1>2, TakenFacts DEF Answering
<1>13. EmitStep("reader", a)
  BY <1>1, <1>3, <1>4, <1>6, <1>7, <1>8, <1>9, <1>10, <1>11, <1>15, ReaderSteps
<1> QED BY <1>13

-----------------------------------------------------------------------------
\* An entry that is on its way still, though something may have overtaken it.
SameEntry(f, g) == f.msg = g.msg /\ f.was = g.was /\ f.from = g.from /\ f.odd = g.odd

\* What is on its way was on its way before, in that order.
Fewer == \A k \in DOMAIN flight' : \E i \in DOMAIN flight :
   /\ SameEntry(flight'[k], flight[i])
   /\ \A j \in 1..k - 1 : \E h \in 1..i - 1 : SameEntry(flight'[j], flight[h])

\* The requests that are not answered yet, after the step.
UplinkFresh ==
  \A k \in DOMAIN uplink' : uplink'[k].type = "turnStarted" =>
     /\ Unused(uplink'[k].turn)
     /\ \A j \in 1..k - 1 : uplink'[j].turn # uplink'[k].turn

\* An answer is on its way only while the request waits.
UplinkAsked == \A k \in DOMAIN uplink' : uplink'[k].type = "toolCallConfirmed" => ask.step = "waiting"

\* What the window's rows say of the request.
RowsAsked(rows) == \A i \in DOMAIN rows : rows[i].kind = "approval" =>
                      rows[i].tool = Permission /\ ask.step = "waiting"

\* A name nobody heard of stays one when messages arrive or are lost.
LEMMA FewerUnused ==
  ASSUME NEW t, Unused(t), Fewer, chat' = chat, agent' = agent, ask' = ask
  PROVE  /\ t \notin Ids(chat') /\ agent'.turn # t /\ ask'.turn # t
         /\ \A j \in DOMAIN flight' : flight'[j].msg.turn # t /\ t \notin Ids(flight'[j].was)
<1>1. ASSUME NEW j \in DOMAIN flight' PROVE flight'[j].msg.turn # t /\ t \notin Ids(flight'[j].was)
  <2>1. PICK i \in DOMAIN flight : SameEntry(flight'[j], flight[i])
    BY DEF Fewer
  <2> QED BY <2>1 DEF SameEntry, Unused
<1> QED BY <1>1 DEF Unused

\* A message that was overtaken is what it was.
LEMMA FewerGood ==
  ASSUME NEW f, NEW g, SameEntry(f, g), NEW m, NEW n, NEW p, NEW q, WasGood(g, m, n, p, q)
  PROVE  WasGood(f, m, n, p, q)
<1>1. f.msg = g.msg /\ f.was = g.was /\ f.from = g.from /\ f.odd = g.odd
  BY DEF SameEntry
<1>2. ChatGood(f.was, m, n, p, q)
  BY <1>1 DEF WasGood
<1>3. SentBy(f, p, q) /\ IsOdd(f)
  BY <1>1 DEF WasGood, MessageGood, SentBy, IsOdd
<1>4. Says(f.msg, m, n, p) /\ Meets(f.msg, f.was, p)
  BY <1>1 DEF WasGood, MessageGood
<1> QED BY <1>2, <1>3, <1>4 DEF WasGood, MessageGood

\* The steps that leave the chat and the goroutines of the host alone.
LEMMA QuietKeeps ==
  ASSUME HostInv, TypesRight', chat' = chat, agent' = agent, ask' = ask, registered' => registered,
         Grows(count'.turn, count'.tool, Permission, ask.turn), Fewer,
         UplinkGood', ViewNames', UplinkFresh, UplinkAsked, RowsAsked(view'.rows)
  PROVE  HostInv'
<1>1. /\ TypesRight /\ HostGood /\ AgentGood /\ AskGood /\ StartsFresh /\ RequestGood
      /\ count.turn \in Nat /\ count.tool \in Nat
  BY HostFacts DEF HostInv
<1>2. Permission' = Permission
  BY DEF Permission
<1>3. PICK m \in Nat, n \in Nat : m = count'.turn /\ n = count'.tool /\ count.turn <= m /\ count.tool <= n
  BY DEF Grows, More
<1>4. HostGood'
  <2>1. /\ ChatGood(chat, m, n, Permission, ask.turn)
        /\ \A k \in DOMAIN flight : WasGood(flight[k], m, n, Permission, ask.turn)
    BY <1>1, <1>3, HostMore
  <2>2. ASSUME NEW k \in DOMAIN flight' PROVE WasGood(flight'[k], m, n, Permission, ask.turn)
    <3>1. PICK i \in DOMAIN flight : SameEntry(flight'[k], flight[i])
      BY DEF Fewer
    <3> QED BY <2>1, <3>1, FewerGood
  <2> QED BY <1>2, <1>3, <2>1, <2>2 DEF HostGood
<1>5. AgentGood'
  <2>1. AgentFits(agent, active, m, n, Permission)
    BY <1>1, <1>3 DEF AgentGood, AgentFits
  <2>2. active' = active
    BY DEF active
  <2> QED BY <1>2, <1>3, <2>1, <2>2 DEF AgentGood
<1>6. AskGood'
  <2>1. AskFits(ask, chat, m, n)
    BY <1>1, <1>3, AskMore DEF AskGood
  <2> QED BY <1>1, <1>3, <2>1 DEF AskGood
<1>7. OwnFresh'
  <2>1. ASSUME NEW k \in DOMAIN uplink', uplink'[k].type = "turnStarted"
        PROVE  /\ uplink'[k].turn \notin Ids(chat') /\ agent'.turn # uplink'[k].turn /\ ask'.turn # uplink'[k].turn
               /\ \A j \in DOMAIN flight' : flight'[j].msg.turn # uplink'[k].turn /\ uplink'[k].turn \notin Ids(flight'[j].was)
               /\ \A j \in 1..k - 1 : uplink'[j].turn # uplink'[k].turn
    <3>1. PICK t : t = uplink'[k].turn
      OBVIOUS
    <3>2. Unused(t) /\ \A j \in 1..k - 1 : uplink'[j].turn # t
      BY <2>1, <3>1 DEF UplinkFresh
    <3>3. /\ t \notin Ids(chat') /\ agent'.turn # t /\ ask'.turn # t
          /\ \A j \in DOMAIN flight' : flight'[j].msg.turn # t /\ t \notin Ids(flight'[j].was)
      BY <3>2, FewerUnused
    <3> QED BY <3>1, <3>2, <3>3
  <2> QED BY <2>1 DEF OwnFresh, Unused
<1>8. StartsFresh'
  <2>1. ASSUME NEW k \in DOMAIN flight', flight'[k].msg.type = "turnStarted", NEW j \in 1..k - 1
        PROVE  /\ flight'[j].msg.turn # flight'[k].msg.turn
               /\ flight'[k].msg.turn \notin Ids(flight'[j].was)
    <3>1. PICK i \in DOMAIN flight : /\ SameEntry(flight'[k], flight[i])
                                    /\ \A x \in 1..k - 1 : \E h \in 1..i - 1 : SameEntry(flight'[x], flight[h])
      BY DEF Fewer
    <3>2. PICK h \in 1..i - 1 : SameEntry(flight'[j], flight[h])
      BY <3>1
    <3>3. flight[h].msg.turn # flight[i].msg.turn /\ flight[i].msg.turn \notin Ids(flight[h].was)
      BY <1>1, <2>1, <3>1 DEF StartsFresh, SameEntry
    <3> QED BY <3>1, <3>2, <3>3 DEF SameEntry
  <2> QED BY <2>1 DEF StartsFresh
<1>9. RequestGood'
  <2>1. ASSUME ask.step # "waiting" PROVE Unasked'
    <3>1. Unasked
      BY <1>1, <2>1 DEF RequestGood
    <3>2. ASSUME NEW k \in DOMAIN flight' PROVE ~Asks(flight'[k].msg, Permission) /\ NoPending(flight'[k].was)
      <4>1. PICK i \in DOMAIN flight : SameEntry(flight'[k], flight[i])
        BY DEF Fewer
      <4> QED BY <3>1, <4>1 DEF SameEntry, Unasked
    <3>3. \A i \in DOMAIN view'.rows : view'.rows[i].kind # "approval"
      BY <2>1 DEF RowsAsked
    <3>4. \A k \in DOMAIN uplink' : uplink'[k].type # "toolCallConfirmed"
      BY <2>1 DEF UplinkAsked
    <3>5. NoPending(chat')
      BY <3>1 DEF Unasked
    <3> QED BY <1>2, <3>2, <3>3, <3>4, <3>5 DEF Unasked
  <2>2. \A i \in DOMAIN view'.rows : view'.rows[i].kind = "approval" => view'.rows[i].tool = Permission'
    BY <1>2 DEF RowsAsked
  <2> QED BY <2>1, <2>2 DEF RequestGood
<1> QED BY <1>4, <1>5, <1>6, <1>7, <1>8, <1>9 DEF HostInv

\* The flight stays.
LEMMA SameFlight ==
  ASSUME TypesRight, flight' = flight
  PROVE  Fewer
<1>1. DOMAIN flight = 1..Len(flight) /\ Len(flight) \in Nat
  BY FlightEntries
<1>2. ASSUME NEW k \in DOMAIN flight'
      PROVE  \E i \in DOMAIN flight : /\ SameEntry(flight'[k], flight[i])
                                      /\ \A j \in 1..k - 1 : \E h \in 1..i - 1 : SameEntry(flight'[j], flight[h])
  <2>1. \A j : SameEntry(flight'[j], flight[j])
    BY DEF SameEntry
  <2> QED BY <2>1
<1> QED BY <1>2 DEF Fewer

\* The numbers stay.
LEMMA SameNumbers ==
  ASSUME TypesRight, NEW m \in Nat, count.turn <= m
  PROVE  Grows(m, count.tool, Permission, ask.turn)
<1>1. count.turn \in Nat /\ count.tool \in Nat /\ Permission \in Nat
  BY FlightEntries
<1> QED BY <1>1 DEF Grows, More

\* What HostInv says of the requests and rows.
LEMMA AskedNow ==
  ASSUME HostInv
  PROVE  /\ RowsAsked(view.rows)
         /\ \A k \in DOMAIN uplink : uplink[k].type = "toolCallConfirmed" => ask.step = "waiting"
         /\ UplinkGood /\ OwnFresh /\ ViewNames
  BY DEF HostInv, RequestGood, Unasked, RowsAsked

-----------------------------------------------------------------------------
\* The requests after one was taken, or none.
LEMMA TailUplink ==
  ASSUME HostInv, uplink' = uplink \/ (uplink # << >> /\ uplink' = Tail(uplink)),
         count'.turn \in Nat, count.turn <= count'.turn
  PROVE  UplinkGood' /\ UplinkFresh /\ UplinkAsked
<1>1. /\ uplink \in Seq(RequestT) /\ UplinkGood /\ OwnFresh /\ count.turn \in Nat
      /\ \A k \in DOMAIN uplink : uplink[k].type = "toolCallConfirmed" => ask.step = "waiting"
  BY HostFacts, AskedNow DEF TypesRight, NetT
<1>2. PICK m \in Nat : m = count'.turn /\ count.turn <= m
  OBVIOUS
<1>3. \A k \in DOMAIN uplink' : \E i \in DOMAIN uplink :
         uplink'[k] = uplink[i] /\ \A j \in 1..k - 1 : \E h \in 1..i - 1 : uplink'[j] = uplink[h]
  <2>1. CASE uplink' = uplink
    BY <2>1
  <2>2. CASE uplink # << >> /\ uplink' = Tail(uplink)
    <3>1. PICK n \in Nat : /\ DOMAIN uplink = 1..n+1 /\ DOMAIN uplink' = 1..n
                           /\ \A i \in 1..n : uplink'[i] = uplink[i + 1]
      BY <1>1, <2>2, Tails DEF TailOf
    <3>2. ASSUME NEW k \in 1..n
          PROVE  /\ k + 1 \in DOMAIN uplink /\ uplink'[k] = uplink[k+1]
                 /\ \A j \in 1..k - 1 : \E h \in 1..(k+1) - 1 : uplink'[j] = uplink[h]
      <4>1. ASSUME NEW j \in 1..k-1 PROVE \E h \in 1..(k+1)-1 : uplink'[j] = uplink[h]
        <5>1. j \in 1..n /\ j + 1 \in 1..(k+1)-1
          OBVIOUS
        <5> QED BY <3>1, <5>1
      <4> QED BY <3>1, <4>1
    <3>3. ASSUME NEW k \in DOMAIN uplink'
          PROVE  \E i \in DOMAIN uplink :
                    uplink'[k] = uplink[i] /\ \A j \in 1..k - 1 : \E h \in 1..i - 1 : uplink'[j] = uplink[h]
      <4>1. PICK i : i = k + 1
        OBVIOUS
      <4>2. /\ i \in DOMAIN uplink /\ uplink'[k] = uplink[i]
            /\ \A j \in 1..k - 1 : \E h \in 1..i - 1 : uplink'[j] = uplink[h]
        BY <3>1, <3>2, <4>1
      <4> QED BY <4>2
    <3> QED BY <3>3
  <2> QED BY <2>1, <2>2
<1>4. UplinkGood'
  <2>1. ASSUME NEW k \in DOMAIN uplink'
        PROVE  uplink'[k].turn \in 0..m /\ (uplink'[k].type # "subscribe" => uplink'[k].turn # 0)
    <3>1. PICK i \in DOMAIN uplink : uplink'[k] = uplink[i]
      BY <1>3
    <3>2. uplink[i].turn \in 0..count.turn /\ (uplink[i].type # "subscribe" => uplink[i].turn # 0)
      BY <1>1 DEF UplinkGood
    <3> QED BY <1>1, <1>2, <3>1, <3>2
  <2> QED BY <1>2, <2>1 DEF UplinkGood
<1>5. ASSUME NEW k \in DOMAIN uplink', uplink'[k].type = "turnStarted"
      PROVE  Unused(uplink'[k].turn) /\ \A j \in 1..k - 1 : uplink'[j].turn # uplink'[k].turn
  <2>1. PICK i \in DOMAIN uplink :
         uplink'[k] = uplink[i] /\ \A j \in 1..k - 1 : \E h \in 1..i - 1 : uplink'[j] = uplink[h]
    BY <1>3
  <2>2. Unused(uplink[i].turn) /\ \A h \in 1..i - 1 : uplink[h].turn # uplink[i].turn
    BY <1>1, <1>5, <2>1 DEF OwnFresh
  <2> QED BY <2>1, <2>2
<1>6. UplinkAsked
  BY <1>1, <1>3 DEF UplinkAsked
<1> QED BY <1>4, <1>5, <1>6 DEF UplinkFresh

\* The requests after one more was sent.
LEMMA AppendUplink ==
  ASSUME HostInv, NEW r \in RequestT, uplink' = Append(uplink, r),
         count'.turn \in Nat, count.turn <= count'.turn,
         r.turn \in 0..count'.turn, r.type # "subscribe" => r.turn # 0,
         r.type = "turnStarted" => Unused(r.turn) /\ \A k \in DOMAIN uplink : uplink[k].turn # r.turn,
         r.type = "toolCallConfirmed" => ask.step = "waiting"
  PROVE  UplinkGood' /\ UplinkFresh /\ UplinkAsked
<1>1. /\ uplink \in Seq(RequestT) /\ UplinkGood /\ OwnFresh /\ count.turn \in Nat
      /\ \A k \in DOMAIN uplink : uplink[k].type = "toolCallConfirmed" => ask.step = "waiting"
  BY HostFacts, AskedNow DEF TypesRight, NetT
<1>2. PICK m \in Nat : m = count'.turn /\ count.turn <= m
  OBVIOUS
<1>3. PICK n \in Nat : /\ DOMAIN uplink = 1..n /\ DOMAIN uplink' = 1..n+1 /\ uplink'[n+1] = r
                       /\ \A i \in 1..n : uplink'[i] = uplink[i]
  <2>1. AddedTo(uplink', uplink, r)
    BY <1>1, AppendAdds
  <2> QED BY <2>1 DEF AddedTo
<1>4. ASSUME NEW k \in DOMAIN uplink'
      PROVE  \/ k \in 1..n /\ k \in DOMAIN uplink /\ uplink'[k] = uplink[k]
             \/ k = n + 1 /\ uplink'[k] = r
  BY <1>3
<1>5. UplinkGood'
  <2>1. ASSUME NEW k \in DOMAIN uplink'
        PROVE  uplink'[k].turn \in 0..m /\ (uplink'[k].type # "subscribe" => uplink'[k].turn # 0)
    <3>1. CASE k \in DOMAIN uplink /\ uplink'[k] = uplink[k]
      <4>1. uplink[k].turn \in 0..count.turn /\ (uplink[k].type # "subscribe" => uplink[k].turn # 0)
        BY <1>1, <3>1 DEF UplinkGood
      <4> QED BY <1>1, <1>2, <3>1, <4>1
    <3>2. CASE uplink'[k] = r
      BY <1>2, <3>2
    <3> QED BY <1>4, <3>1, <3>2
  <2> QED BY <1>2, <2>1 DEF UplinkGood
<1>6. ASSUME NEW k \in DOMAIN uplink', uplink'[k].type = "turnStarted"
      PROVE  Unused(uplink'[k].turn) /\ \A j \in 1..k - 1 : uplink'[j].turn # uplink'[k].turn
  <2>1. CASE k \in 1..n /\ uplink'[k] = uplink[k]
    <3>1. \A j \in 1..k - 1 : j \in 1..n
      BY <2>1
    <3> QED BY <1>1, <1>3, <1>6, <2>1, <3>1 DEF OwnFresh
  <2>2. CASE k = n + 1 /\ uplink'[k] = r
    <3>1. \A j \in 1..k - 1 : j \in 1..n
      BY <2>2
    <3> QED BY <1>3, <1>6, <2>2, <3>1
  <2> QED BY <1>4, <2>1, <2>2
<1>7. UplinkAsked
  BY <1>1, <1>4 DEF UplinkAsked
<1> QED BY <1>5, <1>6, <1>7 DEF UplinkFresh

\* A name not given yet.
LEMMA NewUnused ==
  ASSUME HostInv
  PROVE  Unused(count.turn + 1) /\ \A k \in DOMAIN uplink : uplink[k].turn # count.turn + 1
<1>1. /\ TypesRight /\ count.turn \in Nat /\ count.tool \in Nat /\ chat \in ChatT /\ HostGood
      /\ agent.turn \in 0..count.turn /\ ask.turn \in 0..count.turn
  BY HostFacts
<1>2. PICK t \in Nat : t = count.turn + 1 /\ ~(t \in 0..count.turn) /\ t # 0
  BY <1>1
<1>3. \A c : ChatGood(c, count.turn, count.tool, Permission, ask.turn) => t \notin Ids(c)
  BY <1>1, <1>2 DEF ChatGood, Ids
<1>4. \A j \in DOMAIN flight : flight[j].msg.turn # t /\ t \notin Ids(flight[j].was)
  <2>1. ASSUME NEW j \in DOMAIN flight PROVE flight[j].msg.turn \in 0..count.turn
    <3>1. Says(flight[j].msg, count.turn, count.tool, Permission)
      BY <1>1 DEF HostGood, WasGood, MessageGood
    <3> QED BY <1>1, <3>1 DEF Says
  <2> QED BY <1>1, <1>2, <1>3, <2>1 DEF HostGood, WasGood
<1>5. \A k \in DOMAIN uplink : uplink[k].turn # t
  BY <1>1, <1>2, AskedNow DEF UplinkGood
<1>6. t \notin Ids(chat)
  BY <1>1, <1>3 DEF HostGood
<1> QED BY <1>1, <1>2, <1>4, <1>5, <1>6 DEF Unused

\* Steps that leave the host, its messages and the rows alone ...
LEMMA IdleSteps ==
  ASSUME HostInv, TypesRight', UNCHANGED <<hostVars, sdkVars, flight, view>>,
         \/ UNCHANGED uplink
         \/ \E ty : ReaderTakes(ty)
  PROVE  HostInv'
<1>1. /\ TypesRight /\ count.turn \in Nat /\ count.tool \in Nat
      /\ chat' = chat /\ count' = count /\ agent' = agent /\ ask' = ask /\ registered' = registered
      /\ flight' = flight /\ view' = view
  BY HostFacts DEF hostVars, sdkVars
<1>2. Fewer
  BY <1>1, SameFlight
<1>3. uplink' = uplink \/ (uplink # << >> /\ uplink' = Tail(uplink))
  BY DEF ReaderTakes
<1>4. UplinkGood' /\ UplinkFresh /\ UplinkAsked
  BY <1>1, <1>3, TailUplink
<1>5. ViewNames' /\ RowsAsked(view'.rows)
  BY <1>1, AskedNow DEF ViewNames
<1>6. Grows(count'.turn, count'.tool, Permission, ask.turn)
  BY <1>1, SameNumbers
<1> QED BY <1>1, <1>2, <1>4, <1>5, <1>6, QuietKeeps

\* ... those that send a request ...
LEMMA AppendSteps ==
  ASSUME HostInv, TypesRight', UNCHANGED <<hostVars, sdkVars, flight, view>>,
         NEW r \in RequestT, uplink' = Append(uplink, r), r.turn \in 0..count.turn,
         r.type # "subscribe" => r.turn # 0, r.type # "turnStarted",
         r.type = "toolCallConfirmed" => ask.step = "waiting"
  PROVE  HostInv'
<1>1. /\ TypesRight /\ count.turn \in Nat /\ count.tool \in Nat
      /\ chat' = chat /\ count' = count /\ agent' = agent /\ ask' = ask /\ registered' = registered
      /\ flight' = flight /\ view' = view
  BY HostFacts DEF hostVars, sdkVars
<1>2. Fewer
  BY <1>1, SameFlight
<1>4. UplinkGood' /\ UplinkFresh /\ UplinkAsked
  BY <1>1, AppendUplink
<1>5. ViewNames' /\ RowsAsked(view'.rows)
  BY <1>1, AskedNow DEF ViewNames
<1>6. Grows(count'.turn, count'.tool, Permission, ask.turn)
  BY <1>1, SameNumbers
<1> QED BY <1>1, <1>2, <1>4, <1>5, <1>6, QuietKeeps

\* ... OpenSession ...
LEMMA OpenKeeps ==
  ASSUME HostInv, TypesRight', OpenSession
  PROVE  HostInv'
<1>1. PICK r \in RequestT : r = Request("subscribe", 0, "")
  BY RequestType DEF Words
<1>2. r.type = "subscribe" /\ r.turn = 0 /\ uplink' = Append(uplink, r)
      /\ UNCHANGED <<hostVars, sdkVars, flight, view>>
  BY <1>1 DEF Request, OpenSession
<1>3. r.turn \in 0..count.turn
  BY <1>2, HostFacts
<1> QED BY <1>2, <1>3, AppendSteps

\* ... a click ...
LEMMA ClickKeeps ==
  ASSUME HostInv, TypesRight', NEW ty \in {"turnCancelled", "toolCallConfirmed"}, NEW no \in Words,
         Click(ty, no), ty = "toolCallConfirmed" => ask.step = "waiting"
  PROVE  HostInv'
<1>1. view.turn \in 0..count.turn /\ view.turn # 0 /\ view.turn \in Nat
  BY AskedNow, HostFacts DEF ViewNames, Click
<1>2. PICK r \in RequestT : r = Request(ty, view.turn, no)
  BY <1>1, RequestType
<1>3. r.type = ty /\ r.turn = view.turn /\ uplink' = Append(uplink, r)
      /\ UNCHANGED <<hostVars, sdkVars, flight, view>>
  BY <1>2 DEF Request, Click
<1> QED BY <1>1, <1>3, AppendSteps

\* ... and the loss of the connection.
LEMMA DropKeeps ==
  ASSUME HostInv, TypesRight', Drop
  PROVE  HostInv'
<1>1. /\ TypesRight /\ count.turn \in Nat /\ count.tool \in Nat
      /\ chat' = chat /\ count' = count /\ agent' = agent /\ ask' = ask /\ registered' = registered
      /\ flight' = << >> /\ uplink' = << >> /\ view' = view
  BY HostFacts DEF hostVars, sdkVars, Drop
<1>2. Fewer
  BY <1>1 DEF Fewer
<1>4. UplinkGood' /\ UplinkFresh /\ UplinkAsked
  BY <1>1 DEF UplinkGood, UplinkFresh, UplinkAsked
<1>5. ViewNames' /\ RowsAsked(view'.rows)
  BY <1>1, AskedNow DEF ViewNames
<1>6. Grows(count'.turn, count'.tool, Permission, ask.turn)
  BY <1>1, SameNumbers
<1> QED BY <1>1, <1>2, <1>4, <1>5, <1>6, QuietKeeps

-----------------------------------------------------------------------------
\* A row that is no request, or the one that waits.
RowAsked(x) == x.kind = "approval" => x.tool = Permission /\ ask.step = "waiting"

\* A row that is new or takes a place, when it is no request or the one that waits.
LEMMA RowAdded ==
  ASSUME NEW rows \in Seq(RowT), RowsAsked(rows), NEW x \in RowT, RowAsked(x)
  PROVE  /\ RowsAsked(Append(rows, x))
         /\ \A i \in DOMAIN rows : RowsAsked([rows EXCEPT ![i] = x])
<1>1. RowsAsked(Append(rows, x))
  <2>1. AddedTo(Append(rows, x), rows, x)
    BY AppendAdds
  <2>2. PICK q : q = Append(rows, x)
    OBVIOUS
  <2>3. PICK n \in Nat : /\ DOMAIN rows = 1..n /\ DOMAIN q = 1..n+1 /\ q[n+1] = x
                         /\ \A i \in 1..n : q[i] = rows[i]
    BY <2>1, <2>2 DEF AddedTo
  <2>4. ASSUME NEW i \in DOMAIN q PROVE i \in 1..n \/ i = n + 1
    BY <2>3
  <2>5. RowsAsked(q)
    BY <2>3, <2>4 DEF RowsAsked, RowAsked
  <2> QED BY <2>2, <2>5
<1>2. ASSUME NEW i \in DOMAIN rows PROVE RowsAsked([rows EXCEPT ![i] = x])
  <2>1. PICK q : q = [rows EXCEPT ![i] = x]
    OBVIOUS
  <2>2. DOMAIN q = DOMAIN rows /\ \A j \in DOMAIN q : q[j] = x \/ q[j] = rows[j]
    BY <2>1
  <2>3. RowsAsked(q)
    BY <2>2 DEF RowsAsked, RowAsked
  <2> QED BY <2>1, <2>3
<1> QED BY <1>1, <1>2

\* Of the rows a message makes none is a request before one waits: a user's message ...
LEMMA UserAsked ==
  ASSUME NEW rows \in Seq(RowT), RowsAsked(rows), NEW t \in Nat
  PROVE  RowsAsked(WithUser(rows, t))
<1>1. PICK x \in RowT : x = Row("user", t, 0, 0)
  BY RowType DEF Kinds
<1>2. RowAsked(x)
  BY <1>1 DEF RowAsked, Row
<1>3. DOMAIN rows = 1..Len(rows)
  BY LenProperties
<1>4. RowsAsked(Append(rows, x)) /\ \A i \in 1..Len(rows) : RowsAsked([rows EXCEPT ![i] = x])
  BY <1>2, <1>3, RowAdded
<1>5. \/ WithUser(rows, t) = Append(rows, x)
      \/ \E i \in 1..Len(rows) : WithUser(rows, t) = [rows EXCEPT ![i] = x]
  BY <1>1, UserRows
<1> QED BY <1>4, <1>5

\* ... text ...
LEMMA DeltaAsked ==
  ASSUME NEW rows \in Seq(RowT), RowsAsked(rows), NEW t \in Nat, NEW g \in Nat, NEW x \in Seq(Nat)
  PROVE  RowsAsked(WithDelta(rows, t, g, x))
<1>1. DOMAIN rows = 1..Len(rows) /\ \A i \in DOMAIN rows : rows[i] \in RowT
  BY LenProperties, ElementOfSeq
<1>2. PICK y \in RowT : y = [Row("agent", t, g, 0) EXCEPT !.text = x]
  BY TextRowType
<1>3. RowAsked(y)
  BY <1>2 DEF RowAsked, Row
<1>4. CASE WithDelta(rows, t, g, x) = Append(rows, y)
  BY <1>3, <1>4, RowAdded
<1>5. ASSUME NEW i \in 1..Len(rows), WithDelta(rows, t, g, x) = Grown(rows, i, x)
      PROVE  RowsAsked(WithDelta(rows, t, g, x))
  <2>1. PICK r \in RowT : r = rows[i]
    BY <1>1
  <2>2. PICK z : z = [r EXCEPT !.text = r.text \o x]
    OBVIOUS
  <2>3. r.text \o x \in Seq(Nat)
    BY ConcatProperties DEF RowT
  <2>4. z \in RowT /\ z.kind = r.kind /\ z.tool = r.tool
    BY <2>2, <2>3 DEF RowT
  <2>5. RowAsked(z)
    BY <1>1, <2>1, <2>4 DEF RowAsked, RowsAsked
  <2>6. Grown(rows, i, x) = [rows EXCEPT ![i] = z]
    BY <2>1, <2>2 DEF Grown
  <2>7. RowsAsked([rows EXCEPT ![i] = z])
    BY <1>1, <2>4, <2>5, RowAdded
  <2> QED BY <1>5, <2>6, <2>7
<1> QED BY <1>2, <1>4, <1>5, DeltaRows

\* ... a card ...
LEMMA CardAsked ==
  ASSUME NEW v \in ViewT, RowsAsked(v.rows), NEW a \in ActionT,
         Asks(a, Permission) => a.tool = Permission /\ ask.step = "waiting"
  PROVE  RowsAsked(ToolArrives(v, a).rows)
<1>1. v.rows \in Seq(RowT) /\ DOMAIN v.rows = 1..Len(v.rows)
      /\ \A i \in DOMAIN v.rows : v.rows[i] \in RowT
  BY LenProperties, ElementOfSeq DEF ViewT
<1>2. ASSUME NEW p, p.detail \in Words, p.summary \in Words
      PROVE  CardAfter(p, a) \in RowT /\ RowAsked(CardAfter(p, a))
  <2>1. CardAfter(p, a).tool = a.tool /\ CardAfter(p, a) \in RowT
    BY <1>2, CardAfterTool, CardAfterType
  <2>2. CardAfter(p, a).kind = "approval" => Asks(a, Permission)
    BY DEF CardAfter, Card, Row, Asks
  <2> QED BY <2>1, <2>2 DEF RowAsked
<1>3. NoCard(a.tool).detail \in Words /\ NoCard(a.tool).summary \in Words
  BY DEF NoCard, Card, Row, Words
<1>4. \A i \in DOMAIN v.rows : v.rows[i].detail \in Words /\ v.rows[i].summary \in Words
  BY <1>1 DEF RowT
<1>5. CASE ToolArrives(v, a).rows = Append(v.rows, CardAfter(NoCard(a.tool), a))
  BY <1>1, <1>2, <1>3, <1>5, RowAdded
<1>6. ASSUME NEW i \in 1..Len(v.rows), ToolArrives(v, a).rows = [v.rows EXCEPT ![i] = CardAfter(v.rows[i], a)]
      PROVE  RowsAsked(ToolArrives(v, a).rows)
  BY <1>1, <1>2, <1>4, <1>6, RowAdded
<1> QED BY <1>5, <1>6, ToolShape

\* ... an error ...
LEMMA ErrorAsked ==
  ASSUME NEW rows \in Seq(RowT), RowsAsked(rows)
  PROVE  RowsAsked(Append(rows, Row("error", 0, 0, 0)))
<1>1. PICK x \in RowT : x = Row("error", 0, 0, 0)
  BY RowType DEF Kinds
<1>2. RowAsked(x)
  BY <1>1 DEF RowAsked, Row
<1> QED BY <1>1, <1>2, RowAdded

\* A request on the screen is a part that waits.
LEMMA PartAsked ==
  ASSUME NEW t \in TurnT, NEW m, NEW n, NEW q, TurnGood(t, n, Permission, q),
         ask.step = "waiting" \/ NonePending(t), NEW i \in 1..Len(t.parts),
         RowsOfPart(t, t.parts[i]) # << >>
  PROVE  RowAsked(RowsOfPart(t, t.parts[i])[1])
<1>1. PICK p \in PartT : p = t.parts[i] /\ i \in DOMAIN t.parts
  BY PartsOf
<1>2. PICK r : r = RowsOfPart(t, p)[1]
  OBVIOUS
<1>3. CASE r.kind # "approval"
  BY <1>1, <1>2, <1>3 DEF RowAsked
<1>4. CASE r.kind = "approval"
  <2>1. CASE p.kind # "tool"
    <3>1. RowsOfPart(t, p) = <<[Row("agent", t.id, 0, 0) EXCEPT !.text = p.text]>>
      BY <1>1, <2>1 DEF RowsOfPart
    <3>2. r = [Row("agent", t.id, 0, 0) EXCEPT !.text = p.text]
      BY <1>2, <3>1
    <3> QED BY <1>4, <3>2 DEF Row
  <2>2. CASE p.kind = "tool" /\ p.status # "pending-confirmation"
    <3>1. \E d, s : RowsOfPart(t, p) = <<Card("tool", p.tool, p.status, d, s)>>
      BY <1>1, <2>2 DEF RowsOfPart, CardsOfPart
    <3>2. PICK d, s : r = Card("tool", p.tool, p.status, d, s)
      BY <1>2, <3>1
    <3> QED BY <1>4, <3>2 DEF Card, Row
  <2>3. CASE p.kind = "tool" /\ p.status = "pending-confirmation"
    <3>1. \E d, s : RowsOfPart(t, p) = <<Card("approval", p.tool, "pending", d, s)>>
      BY <1>1, <2>3 DEF RowsOfPart, CardsOfPart
    <3>2. PICK d, s : r = Card("approval", p.tool, "pending", d, s)
      BY <1>2, <3>1
    <3>3. r.tool = p.tool /\ p.tool = Permission
      BY <1>1, <2>3, <3>2 DEF Card, Row, TurnGood, PartGood
    <3>4. ask.step = "waiting"
      BY <1>1, <2>3 DEF NonePending
    <3> QED BY <1>1, <1>2, <3>3, <3>4 DEF RowAsked
  <2> QED BY <2>1, <2>2, <2>3
<1> QED BY <1>3, <1>4

\* ... a snapshot.
LEMMA TurnsAsked ==
  ASSUME NEW ts \in Seq(TurnT), NEW n, NEW q,
         \A i \in DOMAIN ts : TurnGood(ts[i], n, Permission, q) /\ (ask.step = "waiting" \/ NonePending(ts[i]))
  PROVE  RowsAsked(RowsOf(ts))
<1>1. PICK rows \in Seq(RowT), l \in Nat : rows = RowsOf(ts) /\ l = Len(rows) /\ DOMAIN rows = 1..l
  BY RowsOfType, LenProperties
<1>2. PICK b, o : ChatPlaced(ts, rows, l, b, o)
  BY <1>1, ChatPlaces
<1>3. DOMAIN ts = 1..Len(ts) /\ \A i \in DOMAIN ts : ts[i] \in TurnT
  BY LenProperties, ElementOfSeq
<1>4. ASSUME NEW i \in 1..l PROVE RowAsked(rows[i])
  <2>1. b[i] \in DOMAIN ts /\ HasRow(ts[b[i]], o[i]) /\ rows[i] = RowAt(ts[b[i]], o[i]) /\ o[i] \in Nat
    BY <1>2, <1>3 DEF ChatPlaced, ChatOrigin
  <2>2. PICK t \in TurnT, y \in Nat : t = ts[b[i]] /\ y = o[i] /\ HasRow(t, y) /\ rows[i] = RowAt(t, y)
                         /\ TurnGood(t, n, Permission, q) /\ (ask.step = "waiting" \/ NonePending(t))
    BY <1>3, <2>1
  <2>3. CASE y = 0
    <3>1. rows[i] = Row("user", t.id, 0, 0)
      BY <2>2, <2>3 DEF RowAt
    <3>2. RowAsked(Row("user", t.id, 0, 0))
      BY DEF Row, RowAsked
    <3> QED BY <3>1, <3>2
  <2>4. CASE y # 0 /\ y = Len(t.parts) + 1
    <3>1. rows[i] = Row("error", 0, 0, 0)
      BY <2>2, <2>4 DEF RowAt
    <3>2. RowAsked(Row("error", 0, 0, 0))
      BY DEF Row, RowAsked
    <3> QED BY <3>1, <3>2
  <2>5. CASE y # 0 /\ y # Len(t.parts) + 1
    <3>1. y \in 1..Len(t.parts) /\ RowsOfPart(t, t.parts[y]) # << >> /\ rows[i] = RowsOfPart(t, t.parts[y])[1]
      BY <2>2, <2>5 DEF HasRow, RowAt
    <3> QED BY <2>2, <3>1, PartAsked
  <2> QED BY <2>3, <2>4, <2>5
<1> QED BY <1>1, <1>4 DEF RowsAsked, RowAsked

\* The turns a snapshot shows.
ShownTurns(c) == IF c.active.id = 0 THEN c.past ELSE Append(c.past, c.active)

\* The turns a snapshot shows are those of the chat.
LEMMA ShownAre ==
  ASSUME NEW c \in ChatT
  PROVE  /\ ShownTurns(c) \in Seq(TurnT)
         /\ \A i \in DOMAIN ShownTurns(c) : ShownTurns(c)[i] \in TurnSet(c)
         /\ \A t \in TurnSet(c) : \E i \in DOMAIN ShownTurns(c) : ShownTurns(c)[i] = t
<1>1. /\ c.past \in Seq(TurnT) /\ c.active \in TurnT
      /\ \A t : t \in TurnSet(c) <=> (\E i \in DOMAIN c.past : t = c.past[i]) \/ (c.active.id # 0 /\ t = c.active)
  BY ChatParts
<1>2. CASE c.active.id = 0
  BY <1>1, <1>2 DEF ShownTurns
<1>3. CASE c.active.id # 0
  <2>1. PICK s : s = Append(c.past, c.active) /\ s = ShownTurns(c)
    BY <1>3 DEF ShownTurns
  <2>2. s \in Seq(TurnT)
    <3>1. c.past \in Seq(TurnT) /\ c.active \in TurnT
      BY <1>1
    <3> QED BY <2>1, <3>1, AppendProperties
  <2>3. PICK n \in Nat : /\ DOMAIN c.past = 1..n /\ DOMAIN s = 1..n+1 /\ s[n+1] = c.active
                         /\ \A i \in 1..n : s[i] = c.past[i]
    <3>1. AddedTo(s, c.past, c.active)
      BY <1>1, <2>1, AppendAdds
    <3> QED BY <3>1 DEF AddedTo
  <2>4. ASSUME NEW i \in DOMAIN s PROVE s[i] \in TurnSet(c)
    <3>1. i \in 1..n \/ i = n + 1
      BY <2>3
    <3> QED BY <1>1, <1>3, <2>3, <3>1
  <2>5. ASSUME NEW t \in TurnSet(c) PROVE \E i \in DOMAIN s : s[i] = t
    <3>1. n + 1 \in DOMAIN s /\ \A i \in 1..n : i \in DOMAIN s
      BY <2>3
    <3> QED BY <1>1, <2>3, <3>1
  <2> QED BY <2>1, <2>2, <2>4, <2>5
<1> QED BY <1>2, <1>3

\* A snapshot replaces the rows; the turn it names is the window's.
LEMMA SnapshotIs ==
  ASSUME NEW v \in ViewT, NEW c \in ChatT
  PROVE  LET w == SnapshotArrives(v, c) IN
         /\ w.rows = RowsOf(ShownTurns(c)) /\ w.turn = c.active.id /\ w.proj = c.active.id
         /\ w.segment = IF c.active.id = 0 THEN 0 ELSE v.segment
<1>1. CASE c.active.id = 0
  <2>1. PICK u : u = TurnEnds(v)
    OBVIOUS
  <2>2. u.turn = 0 /\ u.proj = 0 /\ u.segment = 0 /\ u = [rows |-> u.rows, turn |-> 0, proj |-> 0, segment |-> 0]
    BY <2>1 DEF TurnEnds, ViewT
  <2>3. SnapshotArrives(v, c) = [u EXCEPT !.rows = RowsOf(c.past)]
    BY <1>1, <2>1 DEF SnapshotArrives
  <2> QED BY <1>1, <2>2, <2>3 DEF ShownTurns
<1>2. CASE c.active.id # 0
  BY <1>2 DEF SnapshotArrives, ViewT, ShownTurns
<1> QED BY <1>1, <1>2

-----------------------------------------------------------------------------
\* Messages of text, of the end of a turn, of calls.
TextTypes == {"responsePart", "delta"}
EndTypes == {"turnComplete", "turnCancelled"}
ToolTypes == {"toolCallStart", "toolCallReady", "toolCallConfirmed", "toolCallComplete"}

\* What a message makes of the view, field by field.
SnapshotShown(w, v, m) ==
  /\ w.rows = RowsOf(ShownTurns(m.was)) /\ w.turn = m.was.active.id /\ w.proj = m.was.active.id
  /\ w.segment = IF m.was.active.id = 0 THEN 0 ELSE v.segment
StartShown(w, v, a) ==
  w.rows = WithUser(v.rows, a.turn) /\ w.turn = a.turn /\ w.proj = a.turn /\ w.segment = 0
TextShown(w, v, a) ==
  /\ w.rows = WithDelta(v.rows, v.proj, IF v.proj = 0 THEN 0 ELSE v.segment, a.text)
  /\ w.turn = v.turn /\ w.proj = v.proj /\ w.segment = v.segment
EndShown(w, v) == w.rows = v.rows /\ w.turn = 0 /\ w.proj = 0 /\ w.segment = 0
ErrorShown(w, v) ==
  w.rows = Append(v.rows, Row("error", 0, 0, 0)) /\ w.turn = 0 /\ w.proj = v.proj /\ w.segment = v.segment
ToolShown(w, v, a) ==
  /\ w.turn = v.turn /\ w.proj = v.proj
  /\ w.segment = IF a.type = "toolCallStart" THEN v.segment + 1 ELSE v.segment
  /\ w.rows = ToolArrives(v, a).rows

\* What the start of a turn makes of the view ...
LEMMA StartIs ==
  ASSUME NEW v \in ViewT, NEW a
  PROVE  StartShown(TurnStarted(v, a), v, a)
BY DEF TurnStarted, StartShown, ViewT

\* ... and every other message.
LEMMA ProjectedIs ==
  ASSUME NEW v \in ViewT, NEW m \in EntryT
  PROVE  LET w == Projected(v, m) IN
         \/ m.msg.type = "snapshot" /\ SnapshotShown(w, v, m)
         \/ m.msg.type = "turnStarted" /\ StartShown(w, v, m.msg)
         \/ m.msg.type \in TextTypes /\ TextShown(w, v, m.msg)
         \/ m.msg.type \in EndTypes /\ EndShown(w, v)
         \/ m.msg.type = "error" /\ ErrorShown(w, v)
         \/ m.msg.type \in ToolTypes /\ ToolShown(w, v, m.msg)
<1>1. PICK w : w = Projected(v, m)
  OBVIOUS
<1>2. m.msg \in ActionT /\ m.was \in ChatT /\ m.msg.type \in Types
  BY DEF EntryT, ActionT
<1>3. CASE m.msg.type = "snapshot"
  BY <1>1, <1>2, <1>3, SnapshotIs DEF Projected, SnapshotShown
<1>4. CASE m.msg.type = "turnStarted"
  BY <1>1, <1>2, <1>4, StartIs DEF Projected
<1>5. CASE m.msg.type \in TextTypes
  <2>1. w = TextArrives(v, m.msg)
    BY <1>1, <1>5 DEF Projected, TextTypes
  <2> QED BY <1>1, <1>5, <2>1 DEF TextArrives, TextShown, ViewT, ScopedTurn, ScopedSegment
<1>6. CASE m.msg.type \in EndTypes
  <2>1. w = TurnEnds(v)
    BY <1>1, <1>6 DEF Projected, EndTypes
  <2> QED BY <1>1, <1>6, <2>1 DEF TurnEnds, EndShown, ViewT
<1>7. CASE m.msg.type = "error"
  <2>1. w = ErrorArrives(v)
    BY <1>1, <1>7 DEF Projected
  <2> QED BY <1>1, <1>7, <2>1 DEF ErrorArrives, ErrorShown, ViewT
<1>8. CASE m.msg.type \in ToolTypes
  <2>1. w = ToolArrives(v, m.msg)
    BY <1>1, <1>8 DEF Projected, ToolTypes
  <2> QED BY <1>1, <1>2, <1>8, <2>1, ToolShape DEF ToolShown
<1>9. m.msg.type \in {"snapshot", "turnStarted", "error"} \cup TextTypes \cup EndTypes \cup ToolTypes
  BY <1>2 DEF Types, TextTypes, EndTypes, ToolTypes
<1> QED BY <1>3, <1>4, <1>5, <1>6, <1>7, <1>8, <1>9

\* A prompt keeps the invariant: the name of its turn is new.
LEMMA PromptKeeps ==
  ASSUME HostInv, TypesRight', Prompt
  PROVE  HostInv'
<1>1. /\ TypesRight /\ HostT /\ count.turn \in Nat /\ count.tool \in Nat /\ view \in ViewT
      /\ chat' = chat /\ agent' = agent /\ ask' = ask /\ registered' = registered /\ flight' = flight
  BY HostFacts DEF sdkVars, Prompt, TypesRight, WindowT
<1>2. PICK t \in Nat : t = count.turn + 1 /\ count.turn <= t /\ t # 0
  BY <1>1
<1>3. /\ count' = [count EXCEPT !.turn = t] /\ uplink' = Append(uplink, Request("turnStarted", t, ""))
      /\ view' = TurnStarted(view, Action("turnStarted", t, 0, ""))
  BY <1>2 DEF Prompt
<1>4. count'.turn = t /\ count'.tool = count.tool
  BY <1>1, <1>3 DEF HostT, CountT
<1>5. PICK r \in RequestT : r = Request("turnStarted", t, "")
  BY RequestType DEF Words
<1>6. r.type = "turnStarted" /\ r.turn = t
  BY <1>5 DEF Request
<1>7. PICK a : a = Action("turnStarted", t, 0, "")
  OBVIOUS
<1>16. a.turn = t
  BY <1>7 DEF Action
<1>8. StartShown(view', view, a)
  BY <1>1, <1>3, <1>7, StartIs
<1>9. view'.rows = WithUser(view.rows, t) /\ view'.turn = t /\ view'.proj = t
  BY <1>8, <1>16 DEF StartShown
<1>10. RowsAsked(view'.rows)
  BY <1>1, <1>9, AskedNow, UserAsked DEF ViewT
<1>11. ViewNames'
  BY <1>4, <1>9 DEF ViewNames
<1>12. Unused(t) /\ \A k \in DOMAIN uplink : uplink[k].turn # t
  BY <1>2, NewUnused
<1>13. UplinkGood' /\ UplinkFresh /\ UplinkAsked
  <2>1. uplink' = Append(uplink, r)
    BY <1>3, <1>5
  <2>2. count'.turn \in Nat /\ count.turn <= count'.turn /\ r.turn \in 0..count'.turn /\ r.turn # 0
    BY <1>2, <1>4, <1>6
  <2>3. Unused(r.turn) /\ \A k \in DOMAIN uplink : uplink[k].turn # r.turn
    BY <1>6, <1>12
  <2> QED BY <1>6, <2>1, <2>2, <2>3, AppendUplink
<1>14. Fewer
  BY <1>1, SameFlight
<1>15. Grows(count'.turn, count'.tool, Permission, ask.turn)
  BY <1>1, <1>2, <1>4, SameNumbers
<1> QED BY <1>1, <1>10, <1>11, <1>13, <1>14, <1>15, QuietKeeps

\* There is a button only while the request waits.
LEMMA ButtonShown ==
  ASSUME HostInv, ScreenOf(screen, view.rows), NEW i \in DOMAIN screen.interruption.elements
  PROVE  \E k \in DOMAIN view.rows : view.rows[k].kind = "approval"
<1>1. SUFFICES ASSUME \A k \in DOMAIN view.rows : view.rows[k].kind # "approval" PROVE FALSE
  OBVIOUS
<1>2. PICK rows \in Seq(RowT) : rows = view.rows
  BY HostFacts DEF TypesRight, WindowT, ViewT
<1>3. PICK g : g = [k \in DOMAIN rows |-> IF rows[k].kind = "approval" /\ rows[k].state = "pending"
                                          THEN <<rows[k]>> ELSE << >>]
  OBVIOUS
<1>4. Lane(rows) = FlattenSeq(g)
  BY <1>3 DEF Lane, Kept
<1>5. DOMAIN rows = 1..Len(rows) /\ Len(rows) \in Nat
  BY LenProperties
<1>6. \A k \in 1..Len(rows) : g[k] = << >>
  BY <1>1, <1>2, <1>3, <1>5
<1>7. << >> \in Seq(RowT)
  OBVIOUS
<1>8. g \in [1..Len(rows) -> Seq(RowT)]
  BY <1>3, <1>5, <1>6, <1>7
<1>9. g \in Seq(Seq(RowT)) /\ Len(g) = Len(rows)
  BY <1>5, <1>8, FcnSeq
<1>10. Lane(rows) = << >>
  BY <1>4, <1>6, <1>9, FlattenNone
<1>11. PICK items : items = LaneItems(Lane(rows)) /\ DOMAIN items = {}
  BY <1>10 DEF LaneItems
<1>12. screen.interruption = [items |-> items, elements |-> [k \in DOMAIN items |-> render(items[k])]]
  BY <1>2, <1>11 DEF ScreenOf, Shows
<1>13. DOMAIN screen.interruption.elements = {}
  BY <1>11, <1>12
<1> QED BY <1>13

\* Who presses a button answers a request that waits.
LEMMA ButtonWaits ==
  ASSUME HostInv, ScreenOf(screen, view.rows), NEW i \in DOMAIN screen.interruption.elements
  PROVE  ask.step = "waiting"
BY ButtonShown, AskedNow DEF RowsAsked

\* An answer keeps the invariant ...
LEMMA AnswerKeeps ==
  ASSUME HostInv, ScreenOf(screen, view.rows), TypesRight', Answer
  PROVE  HostInv'
<1>0. PICK i \in DOMAIN screen.interruption.elements :
         \E b \in screen.interruption.elements[i].buttons :
            Click("toolCallConfirmed", IF b = "Allow" THEN "approved" ELSE "denied")
  BY DEF Answer
<1>1. PICK button \in screen.interruption.elements[i].buttons :
            Click("toolCallConfirmed", IF button = "Allow" THEN "approved" ELSE "denied")
  BY <1>0
<1>2. ask.step = "waiting"
  BY <1>1, ButtonWaits
<1>3. PICK no \in Words : no = IF button = "Allow" THEN "approved" ELSE "denied"
  BY DEF Words
<1>4. Click("toolCallConfirmed", no)
  BY <1>1, <1>3
<1> QED BY <1>2, <1>4, ClickKeeps

\* ... a request that is registered ...
LEMMA RegisterKeeps ==
  ASSUME HostInv, TypesRight', AskRegisters
  PROVE  HostInv'
<1>1. /\ TypesRight /\ HostT /\ HostGood /\ AgentGood /\ AskGood /\ count.turn \in Nat /\ count.tool \in Nat
      /\ chat \in ChatT /\ active = chat.active /\ active.id \in 1..count.turn
      /\ Permission = ask.tool /\ ask = AskIdle /\ chat' = chat /\ agent' = agent /\ view' = view
      /\ flight' = flight /\ uplink' = uplink
  BY HostFacts DEF TypesRight, AskRegisters, netVars, clientVars
<1>2. PICK n \in Nat, k \in Nat : n = count.tool /\ k = n + 1 /\ k # n /\ n < k /\ n <= k
  BY <1>1
<1>3. count' = [count EXCEPT !.tool = k] /\ ask' = [step |-> "toolCallStart", turn |-> active.id, tool |-> k]
  BY <1>2 DEF AskRegisters
<1>4. count'.turn = count.turn /\ count'.tool = k
  BY <1>1, <1>3 DEF HostT, CountT
<1>5. Permission = 0 /\ Permission' = k /\ ask'.turn = active.id /\ ask'.step = "toolCallStart" /\ ask.step = "idle"
  BY <1>1, <1>3 DEF AskIdle, Permission
<1>6. PICK m \in Nat, q \in Nat : m = count.turn /\ q = active.id /\ q \in 1..m
  BY <1>1
<1>7. Grows(m, k, k, q)
  BY <1>1, <1>2, <1>5, <1>6 DEF Grows, More
<1>8. /\ ChatGood(chat, m, k, k, q)
      /\ \A j \in DOMAIN flight : WasGood(flight[j], m, k, k, q)
  BY <1>1, <1>7, HostMore
<1>9. HostGood'
  BY <1>1, <1>4, <1>5, <1>6, <1>8 DEF HostGood
<1>10. AgentGood'
  <2>1. AgentFits(agent, active, m, n, Permission)
    BY <1>1, <1>2, <1>6 DEF AgentGood
  <2>2. AgentFits(agent, active, m, k, k)
    BY <1>2, <2>1 DEF AgentFits
  <2>3. active' = active
    BY <1>1 DEF active
  <2> QED BY <1>1, <1>4, <1>5, <1>6, <2>2, <2>3 DEF AgentGood
<1>11. ASSUME NEW u \in TurnSet(chat), HasCall(u, k) PROVE FALSE
  <2>1. TurnGood(u, n, Permission, ask.turn)
    BY <1>1, <1>2 DEF HostGood, ChatGood
  <2>2. PICK i \in DOMAIN u.parts : u.parts[i].kind = "tool" /\ u.parts[i].tool = k
    BY <1>11 DEF HasCall
  <2>3. k \in 1..n
    BY <2>1, <2>2 DEF TurnGood, PartGood
  <2> QED BY <1>2, <2>3
<1>12. AskGood'
  <2>1. PICK x : x = ask' /\ x.step = "toolCallStart" /\ x.turn = q /\ x.tool = k
    BY <1>3, <1>6
  <2>2. AskFits(x, chat, m, k)
    BY <1>2, <1>6, <1>11, <2>1 DEF AskFits
  <2> QED BY <1>1, <1>4, <1>6, <2>1, <2>2 DEF AskGood
<1>13. UplinkGood' /\ ViewNames' /\ StartsFresh'
  BY <1>1, <1>4 DEF HostInv, UplinkGood, ViewNames, StartsFresh
<1>14. OwnFresh'
  <2>1. ASSUME NEW j \in DOMAIN uplink, uplink[j].type = "turnStarted"
        PROVE  /\ uplink[j].turn \notin Ids(chat) /\ agent.turn # uplink[j].turn /\ ask'.turn # uplink[j].turn
               /\ \A i \in DOMAIN flight : flight[i].msg.turn # uplink[j].turn /\ uplink[j].turn \notin Ids(flight[i].was)
               /\ \A i \in 1..j - 1 : uplink[i].turn # uplink[j].turn
    <3>1. Unused(uplink[j].turn) /\ \A i \in 1..j - 1 : uplink[i].turn # uplink[j].turn
      BY <2>1 DEF HostInv, OwnFresh
    <3>2. uplink[j].turn # q
      BY <1>6, <2>1, KnownTurn
    <3> QED BY <1>5, <1>6, <3>1, <3>2 DEF Unused
  <2> QED BY <1>1, <2>1 DEF OwnFresh, Unused
<1>15. RequestGood'
  <2>1. Unasked
    BY <1>5 DEF HostInv, RequestGood
  <2>2. ASSUME NEW j \in DOMAIN flight PROVE ~Asks(flight[j].msg, k)
    <3>1. Says(flight[j].msg, m, n, Permission)
      BY <1>1, <1>2, <1>6 DEF HostGood, WasGood, MessageGood
    <3>2. flight[j].msg.type = "toolCallReady" => flight[j].msg.tool \in 1..n
      BY <3>1 DEF Says, Settles
    <3>3. flight[j].msg.type # "toolCallConfirmed"
      BY <2>1 DEF Unasked, Asks
    <3> QED BY <1>2, <3>2, <3>3 DEF Asks
  <2>3. Unasked'
    BY <1>1, <1>5, <2>1, <2>2 DEF Unasked
  <2>4. \A i \in DOMAIN view'.rows : view'.rows[i].kind # "approval"
    BY <1>1, <2>1 DEF Unasked
  <2> QED BY <2>3, <2>4 DEF RequestGood
<1> QED BY <1>9, <1>10, <1>12, <1>13, <1>14, <1>15 DEF HostInv

-----------------------------------------------------------------------------
\* What the answer to a subscription is.
LEMMA SubscribeFacts ==
  ASSUME HostInv, HostSubscribes
  PROVE  /\ Snapshot \in ActionT /\ Snapshot.type = "snapshot" /\ Snapshot.turn = 0
         /\ Snapshot.text = << >> /\ Snapshot.tool = 0
         /\ AddedTo(flight', flight, Entry("reader", Snapshot))
         /\ flight' = Append(flight, Entry("reader", Snapshot))
         /\ Entry("reader", Snapshot) \in EntryT
         /\ chat' = chat /\ count' = count /\ agent' = agent /\ ask' = ask /\ registered' = registered
         /\ view' = view /\ UNCHANGED clientVars
<1>1. Snapshot \in ActionT
  <2>1. "snapshot" \in Types /\ "" \in Words /\ 0 \in Nat
    BY DEF Types, Words
  <2> QED BY <2>1, ActionType DEF Snapshot
<1>2. Snapshot.type = "snapshot" /\ Snapshot.turn = 0 /\ Snapshot.text = << >> /\ Snapshot.tool = 0
  BY DEF Snapshot, Action
<1>3. flight' = Append(flight, Entry("reader", Snapshot))
  BY SendIs DEF HostSubscribes
<1>4. HostT /\ flight \in Seq(EntryT)
  BY HostFacts DEF TypesRight, NetT
<1>5. Entry("reader", Snapshot) \in EntryT
  BY <1>1, <1>4, EntryType
<1>6. AddedTo(flight', flight, Entry("reader", Snapshot))
  BY <1>3, <1>4, <1>5, AppendAdds
<1> QED BY <1>1, <1>2, <1>3, <1>5, <1>6 DEF HostSubscribes, hostVars, sdkVars, clientVars

\* ... a subscription ...
LEMMA SubscribeKeeps ==
  ASSUME HostInv, TypesRight', HostSubscribes
  PROVE  HostInv'
<1>1. /\ TypesRight /\ HostGood /\ AgentGood /\ AskGood /\ count.turn \in Nat /\ count.tool \in Nat
      /\ StartsFresh /\ RequestGood
  BY HostFacts DEF HostInv
<1>2. PICK f : f = Entry("reader", Snapshot)
  OBVIOUS
<1>3. /\ f.msg = Snapshot /\ f.was = chat /\ f.from = "reader" /\ f.odd = FALSE
      /\ f.msg.type = "snapshot" /\ f.msg.turn = 0 /\ f.msg.text = << >>
  BY <1>2, SubscribeFacts DEF Entry
<1>4. PICK l \in Nat : /\ DOMAIN flight = 1..l /\ DOMAIN flight' = 1..l+1
                       /\ flight'[l+1] = f /\ \A i \in 1..l : flight'[i] = flight[i]
  BY <1>2, SubscribeFacts DEF AddedTo
<1>5. \A k \in DOMAIN flight' : (k \in 1..l /\ k \in DOMAIN flight /\ flight'[k] = flight[k]) \/ (k = l + 1 /\ flight'[k] = f)
  BY <1>4
<1>6. /\ chat' = chat /\ count' = count /\ agent' = agent /\ ask' = ask /\ registered' = registered
      /\ view' = view /\ Permission' = Permission /\ active' = active
  BY SubscribeFacts DEF Permission, active
<1>7. HostGood'
  <2>1. WasGood(f, count.turn, count.tool, Permission, ask.turn)
    <3>1. SentBy(f, Permission, ask.turn)
      BY <1>3 DEF SentBy
    <3>2. Says(f.msg, count.turn, count.tool, Permission)
      BY <1>3 DEF Says, Settles
    <3>3. Meets(f.msg, f.was, Permission)
      BY <1>3 DEF Meets
    <3>4. IsOdd(f)
      BY <1>3 DEF IsOdd
    <3> QED BY <1>1, <1>3, <3>1, <3>2, <3>3, <3>4 DEF WasGood, MessageGood, HostGood
  <2> QED BY <1>1, <1>5, <1>6, <2>1 DEF HostGood
<1>8. AgentGood' /\ AskGood'
  BY <1>1, <1>6 DEF AgentGood, AskGood
<1>9. uplink' = Tail(uplink) /\ uplink # << >>
  BY DEF HostSubscribes, ReaderTakes
<1>10. UplinkGood' /\ UplinkFresh /\ UplinkAsked
  BY <1>1, <1>6, <1>9, TailUplink
<1>11. ViewNames'
  BY <1>6, AskedNow DEF ViewNames
<1>12. OwnFresh'
  <2>1. ASSUME NEW k \in DOMAIN uplink', uplink'[k].type = "turnStarted"
        PROVE  /\ uplink'[k].turn \notin Ids(chat') /\ agent'.turn # uplink'[k].turn /\ ask'.turn # uplink'[k].turn
               /\ \A j \in DOMAIN flight' : flight'[j].msg.turn # uplink'[k].turn /\ uplink'[k].turn \notin Ids(flight'[j].was)
               /\ \A j \in 1..k - 1 : uplink'[j].turn # uplink'[k].turn
    <3>1. PICK t : t = uplink'[k].turn
      OBVIOUS
    <3>2. Unused(t) /\ \A j \in 1..k - 1 : uplink'[j].turn # t
      BY <1>10, <2>1, <3>1 DEF UplinkFresh
    <3>3. t # 0
      BY <1>10, <2>1, <3>1 DEF UplinkGood
    <3>4. ASSUME NEW j \in DOMAIN flight' PROVE flight'[j].msg.turn # t /\ t \notin Ids(flight'[j].was)
      BY <1>3, <1>5, <3>2, <3>3 DEF Unused
    <3> QED BY <1>6, <3>1, <3>2, <3>4 DEF Unused
  <2> QED BY <2>1 DEF OwnFresh, Unused
<1>13. StartsFresh'
  <2>1. ASSUME NEW k \in DOMAIN flight', flight'[k].msg.type = "turnStarted", NEW j \in 1..k - 1
        PROVE  /\ flight'[j].msg.turn # flight'[k].msg.turn
               /\ flight'[k].msg.turn \notin Ids(flight'[j].was)
    <3>1. k \in 1..l /\ k \in DOMAIN flight /\ flight'[k] = flight[k]
      BY <1>3, <1>5, <2>1
    <3>2. j \in 1..l /\ flight'[j] = flight[j]
      BY <1>4, <3>1
    <3> QED BY <1>1, <2>1, <3>1, <3>2 DEF StartsFresh
  <2> QED BY <2>1 DEF StartsFresh
<1>14. RequestGood'
  <2>1. ASSUME ask.step # "waiting" PROVE Unasked'
    <3>1. Unasked
      BY <1>1, <2>1 DEF RequestGood
    <3>2. ASSUME NEW k \in DOMAIN flight' PROVE ~Asks(flight'[k].msg, Permission) /\ NoPending(flight'[k].was)
      BY <1>3, <1>5, <3>1 DEF Unasked, Asks
    <3>3. \A k \in DOMAIN uplink' : uplink'[k].type # "toolCallConfirmed"
      BY <1>10, <2>1 DEF UplinkAsked
    <3> QED BY <1>6, <3>1, <3>2, <3>3 DEF Unasked
  <2>2. \A i \in DOMAIN view'.rows : view'.rows[i].kind = "approval" => view'.rows[i].tool = Permission'
    BY <1>1, <1>6 DEF RequestGood
  <2> QED BY <1>6, <2>1, <2>2 DEF RequestGood
<1> QED BY <1>7, <1>8, <1>10, <1>11, <1>12, <1>13, <1>14 DEF HostInv

\* One message arrives: the others are what they were, and keep their order.
LEMMA ReceiveFewer ==
  ASSUME TypesRight, NEW i \in DOMAIN flight, Arrived(i)
  PROVE  Fewer
<1>1. PICK l \in Nat : l = Len(flight) /\ DOMAIN flight = 1..l /\ \A k \in DOMAIN flight : flight[k] \in EntryT
  BY FlightEntries
<1>2. /\ flight' = [j \in 1..l - 1 |-> IF j < i THEN [flight[j] EXCEPT !.late = TRUE] ELSE flight[j + 1]]
  BY <1>1 DEF Arrived
<1>3. ASSUME NEW k \in DOMAIN flight'
      PROVE  \E h \in DOMAIN flight : /\ SameEntry(flight'[k], flight[h])
                                      /\ ((k < i /\ h = k) \/ (k >= i /\ h = k + 1))
  <2>1. k \in 1..l - 1
    BY <1>2
  <2>2. CASE k < i
    <3>1. k \in DOMAIN flight /\ flight'[k] = [flight[k] EXCEPT !.late = TRUE]
      BY <1>1, <1>2, <2>1, <2>2
    <3>2. PICK f \in EntryT : f = flight[k]
      BY <1>1, <3>1
    <3>3. SameEntry([f EXCEPT !.late = TRUE], f)
      BY DEF SameEntry, EntryT
    <3> QED BY <2>2, <3>1, <3>2, <3>3
  <2>3. CASE ~(k < i)
    <3>1. k + 1 \in DOMAIN flight /\ flight'[k] = flight[k + 1]
      BY <1>1, <1>2, <2>1, <2>3
    <3>2. k >= i
      BY <1>1, <2>1, <2>3
    <3> QED BY <3>1, <3>2 DEF SameEntry
  <2> QED BY <2>2, <2>3
<1>4. ASSUME NEW k \in DOMAIN flight'
      PROVE  \E h \in DOMAIN flight :
                /\ SameEntry(flight'[k], flight[h])
                /\ \A j \in 1..k - 1 : \E x \in 1..h - 1 : SameEntry(flight'[j], flight[x])
  <2>1. PICK h \in DOMAIN flight : /\ SameEntry(flight'[k], flight[h])
                                  /\ ((k < i /\ h = k) \/ (k >= i /\ h = k + 1))
    BY <1>3
  <2>2. ASSUME NEW j \in 1..k - 1 PROVE \E x \in 1..h - 1 : SameEntry(flight'[j], flight[x])
    <3>1. k \in 1..l-1 /\ DOMAIN flight' = 1..l-1
      BY <1>2
    <3>2. j \in DOMAIN flight'
      BY <3>1
    <3>3. PICK x \in DOMAIN flight : /\ SameEntry(flight'[j], flight[x])
                                    /\ ((j < i /\ x = j) \/ (j >= i /\ x = j + 1))
      BY <1>3, <3>2
    <3>4. x \in 1..h - 1
      BY <1>1, <2>1, <3>1, <3>3
    <3> QED BY <3>3, <3>4
  <2> QED BY <2>1, <2>2
<1> QED BY <1>4 DEF Fewer

\* ... a message that arrives.
LEMMA ReceiveKeeps ==
  ASSUME HostInv, TypesRight', NEW i \in DOMAIN flight, Arrived(i)
  PROVE  HostInv'
<1>1. /\ TypesRight /\ count.turn \in Nat /\ count.tool \in Nat /\ view \in ViewT /\ HostGood
      /\ chat' = chat /\ count' = count /\ agent' = agent /\ ask' = ask /\ registered' = registered
      /\ uplink' = uplink /\ view' = Projected(view, flight[i])
  BY HostFacts DEF TypesRight, WindowT, Arrived
<1>2. Fewer
  BY <1>1, ReceiveFewer
<1>3. UplinkGood' /\ UplinkFresh /\ UplinkAsked
  BY <1>1, TailUplink
<1>4. Grows(count'.turn, count'.tool, Permission, ask.turn)
  BY <1>1, SameNumbers
<1>5. PICK f \in EntryT : f = flight[i]
  BY <1>1, FlightEntries
<1>6. PICK a \in ActionT, c \in ChatT : a = f.msg /\ c = f.was
  BY DEF EntryT
<1>7. WasGood(f, count.turn, count.tool, Permission, ask.turn)
  BY <1>1, <1>5 DEF HostGood
<1>8. a.type # "snapshot" => a.turn \in 1..count.turn
  BY <1>6, <1>7 DEF WasGood, MessageGood, Says
<1>9. c.active.id \in 0..count.turn
  <2>1. c.active.id # 0 => c.active \in TurnSet(c)
    BY ChatParts
  <2> QED BY <1>1, <1>6, <1>7, <2>1 DEF WasGood, ChatGood
<1>10. RowsAsked(view.rows) /\ ViewNames
  BY AskedNow
<1>11. Asks(a, Permission) => a.tool = Permission /\ ask.step = "waiting"
  <2>1. a.type = "toolCallConfirmed" => a.tool = Permission
    BY <1>6, <1>7 DEF WasGood, MessageGood, SentBy
  <2>2. ask.step # "waiting" => ~Asks(a, Permission)
    BY <1>5, <1>6 DEF HostInv, RequestGood, Unasked
  <2> QED BY <2>1, <2>2 DEF Asks
<1>12. RowsAsked(RowsOf(ShownTurns(c)))
  <2>1. \A t \in TurnSet(c) : TurnGood(t, count.tool, Permission, ask.turn)
    BY <1>6, <1>7 DEF WasGood, ChatGood
  <2>2. \A t \in TurnSet(c) : ask.step = "waiting" \/ NonePending(t)
    BY <1>5, <1>6 DEF HostInv, RequestGood, Unasked, NoPending
  <2>3. /\ ShownTurns(c) \in Seq(TurnT)
        /\ \A j \in DOMAIN ShownTurns(c) : ShownTurns(c)[j] \in TurnSet(c)
    BY ShownAre
  <2> QED BY <2>1, <2>2, <2>3, TurnsAsked
<1>13. view.rows \in Seq(RowT) /\ view.proj \in Nat /\ view.segment \in Nat
  BY <1>1 DEF ViewT
<1>14. a.turn \in Nat /\ a.text \in Seq(Nat)
  BY DEF ActionT
<1>15. PICK w : w = Projected(view, f) /\ w = view'
  BY <1>1, <1>5
<1>16. /\ RowsAsked(w.rows) /\ w.turn \in 0..count.turn /\ w.proj \in 0..count.turn
  <2>0. 0 \in 0..count.turn /\ view.turn \in 0..count.turn /\ view.proj \in 0..count.turn
    BY <1>1, <1>10 DEF ViewNames
  <2>1. CASE a.type = "snapshot" /\ SnapshotShown(w, view, f)
    BY <1>6, <1>9, <1>12, <2>1 DEF SnapshotShown
  <2>2. CASE a.type = "turnStarted" /\ StartShown(w, view, a)
    <3>1. a.turn \in 0..count.turn
      BY <1>1, <1>8, <2>2
    <3> QED BY <1>10, <1>13, <1>14, <2>2, <3>1, UserAsked DEF StartShown
  <2>3. CASE TextShown(w, view, a)
    <3>1. PICK g \in Nat : g = IF view.proj = 0 THEN 0 ELSE view.segment
      BY <1>13
    <3> QED BY <1>10, <1>13, <1>14, <2>0, <2>3, <3>1, DeltaAsked DEF TextShown
  <2>4. CASE EndShown(w, view)
    BY <1>10, <2>0, <2>4 DEF EndShown
  <2>5. CASE ErrorShown(w, view)
    BY <1>10, <1>13, <2>0, <2>5, ErrorAsked DEF ErrorShown
  <2>6. CASE ToolShown(w, view, a)
    BY <1>1, <1>10, <1>11, <2>0, <2>6, CardAsked DEF ToolShown
  <2> QED BY <1>1, <1>6, <1>15, <2>1, <2>2, <2>3, <2>4, <2>5, <2>6, ProjectedIs
<1>17. ViewNames' /\ RowsAsked(view'.rows)
  BY <1>1, <1>15, <1>16 DEF ViewNames
<1> QED BY <1>1, <1>2, <1>3, <1>4, <1>17, QuietKeeps

\* Every step, for what is proved further on: one that applies an action, or one of the others.
LEMMA EmittingSteps ==
  ASSUME HostInv, \/ AgentText \/ AgentStartsTool \/ AgentToolReady \/ AgentToolComplete \/ AgentEnds
                  \/ AskEmits \/ HostStartsTurn \/ OtherStartsTurn \/ HostCancelsTurn
  PROVE  \E e, a : EmitStep(e, a)
BY TextStep, ToolStartStep, ToolReadyStep, ToolCompleteStep, EndsStep, RequestStep, StartStep, OtherStep, CancelStep

\* Every step keeps the invariant ...
LEMMA NextHost ==
  ASSUME HostInv, ScreenInv, [NextChat]_varsChat
  PROVE  HostInv'
<1>1. TypesRight' /\ ScreenOf(screen, view.rows)
  BY NextTypes DEF HostInv, ScreenInv
<1>2. CASE \/ AgentText \/ AgentStartsTool \/ AgentToolReady \/ AgentToolComplete \/ AgentEnds
           \/ AskEmits \/ HostStartsTurn \/ OtherStartsTurn \/ HostCancelsTurn
  BY <1>1, <1>2, EmittingSteps, EmitKeeps
<1>3. CASE ResolvePermission
  <2>1. CASE \E a : EmitStep("reader", a)
    BY <1>1, <2>1, EmitKeeps
  <2>2. CASE ReaderTakes("toolCallConfirmed") /\ UNCHANGED <<chat, registered, flight, count, agent, ask, subscribed, clientVars>>
    BY <1>1, <2>2, IdleSteps DEF hostVars, sdkVars, clientVars
  <2> QED BY <1>3, <2>1, <2>2, ResolveStep
<1>4. CASE AskRegisters
  BY <1>1, <1>4, RegisterKeeps
<1>5. CASE HostSubscribes
  BY <1>1, <1>5, SubscribeKeeps
<1>6. CASE Connect
  BY <1>1, <1>6, IdleSteps DEF Connect, netVars
<1>7. CASE OpenSession
  BY <1>1, <1>7, OpenKeeps
<1>8. CASE Prompt
  BY <1>1, <1>8, PromptKeeps
<1>9. CASE Cancel
  BY <1>1, <1>9, ClickKeeps DEF Cancel, Words
<1>10. CASE Answer
  BY <1>1, <1>10, AnswerKeeps
<1>11. CASE Drop
  BY <1>1, <1>11, DropKeeps
<1>12. CASE \E i \in DOMAIN flight : Receive(i)
  BY <1>1, <1>12, ReceiveIs, ReceiveKeeps
<1>13. CASE UNCHANGED varsChat
  BY <1>1, <1>13, IdleSteps DEF varsChat, netVars, clientVars
<1> QED BY <1>2, <1>3, <1>4, <1>5, <1>6, <1>7, <1>8, <1>9, <1>10, <1>11, <1>12, <1>13 DEF NextChat

\* ... which holds at first.
LEMMA InitHost == InitChat => HostInv
<1> SUFFICES ASSUME InitChat PROVE HostInv
  OBVIOUS
<1>1. TypesRight
  BY InitTypes
<1>2. /\ chat.past = << >> /\ chat.active = NoTurn /\ count.turn = 0 /\ count.tool = 0
      /\ agent = AgentIdle /\ ask = AskIdle /\ registered = FALSE /\ flight = << >> /\ uplink = << >>
      /\ view.rows = << >> /\ view.turn = 0 /\ view.proj = 0 /\ active = NoTurn
  BY DEF InitChat, active
<1>3. NoTurn.id = 0 /\ NoTurn.failed = FALSE /\ NoTurn.parts = << >>
  BY DEF NoTurn
<1>4. TurnSet(chat) = {}
  BY <1>2, <1>3 DEF TurnSet
<1>5. HostGood
  BY <1>2, <1>3, <1>4 DEF HostGood, ChatGood, Apart, Named, Resting
<1>6. AgentGood /\ AskGood
  BY <1>2, <1>4 DEF AgentGood, AskGood, AgentFits, AskFits, AgentIdle, AskIdle
<1>7. UplinkGood /\ ViewNames /\ OwnFresh /\ StartsFresh
  BY <1>2 DEF UplinkGood, ViewNames, OwnFresh, StartsFresh
<1>8. RequestGood
  BY <1>2, <1>4 DEF RequestGood, Unasked, NoPending
<1> QED BY <1>1, <1>5, <1>6, <1>7, <1>8 DEF HostInv

-----------------------------------------------------------------------------
\* The start of call k of turn t, what is said of it later, the start of turn t.
StartOf(m, t, k) == m.msg.type = "toolCallStart" /\ m.msg.turn = t /\ m.msg.tool = k
UseOf(m, t, k) == /\ m.msg.type \in {"toolCallReady", "toolCallComplete"} /\ ~m.odd
                  /\ m.msg.turn = t /\ m.msg.tool = k
StartsTurn(m, t) == m.msg.type = "turnStarted" /\ m.msg.turn = t

\* The calls of a turn the host has more to say about: agent g, request q, chat c.
UsedBy(g, q, c, t) ==
  {k \in Nat :
     \/ (g.step = "toolCallReady" /\ g.turn = t /\ g.tool = k)
     \/ (q.step = "toolCallReady" /\ q.turn = t /\ q.tool = k)
     \/ (c.active.id = t /\ HasCall(c.active, k))}
UsedNow(t) == UsedBy(agent, ask, chat, t)

\* What is said of those calls follows their start on the way f, unless they are among K.
Announced(f, U, t, K) ==
  /\ \A k \in U : k \in K \/ \E i \in DOMAIN f : StartOf(f[i], t, k)
  /\ \A n \in DOMAIN f, k \in Nat : UseOf(f[n], t, k) => k \in K \/ \E i \in 1..n - 1 : StartOf(f[i], t, k)

\* The calls that have a card, the turns that have text.
Calls(rows) == {rows[i].tool : i \in {j \in DOMAIN rows : IsCard(rows[j])}}
Texted(rows) == {rows[i].turn : i \in {j \in DOMAIN rows : rows[j].kind = "agent"}}
Approved(rows) == \E i \in DOMAIN rows : rows[i].kind = "approval"

\* The window follows a turn it saw from its start.
OwnTurn == view.proj \notin {0, restored}

\* Nothing is sent before a subscription, and every request follows one.
Subscribing ==
  /\ ~subscribed => flight = << >>
  /\ \A k \in DOMAIN uplink : uplink[k].type # "subscribe" =>
        subscribed \/ \E j \in 1..k - 1 : uplink[j].type = "subscribe"
  /\ link.known => subscribed \/ \E j \in DOMAIN uplink : uplink[j].type = "subscribe"

\* Before the subscription the window can only have started a turn itself.
Unsubscribed ==
  ~subscribed /\ ~blurred /\ view.proj # 0 =>
     \E k \in DOMAIN uplink : uplink[k].type = "turnStarted" /\ uplink[k].turn = view.proj

\* A turn that starts on the way starts its calls there too.
StartsOnTheWay ==
  \A j \in DOMAIN flight : flight[j].msg.type = "turnStarted" /\ ~flight[j].late =>
     Announced(flight, UsedNow(flight[j].msg.turn), flight[j].msg.turn, {})

\* Of the window's turn: a call has a card, or its start arrives before more is said of it.
CardsKnown ==
  ~blurred /\ OwnTurn => Announced(flight, UsedNow(view.proj), view.proj, Calls(view.rows))

\* The answer is on its way to the host or back.
Confirming ==
  \/ \E k \in DOMAIN uplink : uplink[k].type = "toolCallConfirmed"
  \/ \E k \in DOMAIN flight : flight[k].msg.type = "toolCallConfirmed"

\* The turn of an answered request was seen to start, and its call has a card.
AnswerKnown ==
  /\ Confirming \/ Approved(view.rows) =>
        \A j \in DOMAIN flight : StartsTurn(flight[j], ask.turn) => flight[j].late
  /\ Confirming /\ ~blurred /\ OwnTurn /\ view.proj = ask.turn => Permission \in Calls(view.rows)

\* Nobody is about to start that turn.
NotToStart(u, f, t) ==
  /\ \A k \in DOMAIN u : u[k].type = "turnStarted" => u[k].turn # t
  /\ \A k \in DOMAIN f : StartsTurn(f[k], t) => f[k].late

\* The text of turn t stands in segments up to g, and no card stands below segment g.
Above(rows, t, g) ==
  \A i \in DOMAIN rows : rows[i].kind = "agent" /\ rows[i].turn = t =>
     /\ rows[i].segment <= g
     /\ rows[i].segment = g => \A j \in DOMAIN rows : i < j => ~IsCard(rows[j])

\* The text on the screen: of which turns, and above which cards.
RowsKnown ==
  /\ \A t \in Texted(view.rows) : t \in 0..count.turn
  /\ ~blurred => \A t \in Texted(view.rows) : NotToStart(uplink, flight, t)
  /\ ~blurred /\ OwnTurn => Above(view.rows, view.proj, view.segment)

\* The invariant behind TextAfterTools.
TextInv == Subscribing /\ Unsubscribed /\ StartsOnTheWay /\ CardsKnown /\ AnswerKnown /\ RowsKnown

-----------------------------------------------------------------------------
\* Calls stay announced when a message is sent about one of them or starts one ...
LEMMA AnnouncedAdds ==
  ASSUME NEW f, NEW g, NEW m, AddedTo(g, f, m), NEW U, NEW V, NEW t, NEW K, Announced(f, U, t, K),
         \A k \in V : k \in U \/ StartOf(m, t, k),
         \A k \in Nat : UseOf(m, t, k) => k \in U
  PROVE  Announced(g, V, t, K)
<1>1. PICK n \in Nat : /\ DOMAIN f = 1..n /\ DOMAIN g = 1..n+1 /\ g[n+1] = m
                       /\ \A i \in 1..n : g[i] = f[i]
  BY DEF AddedTo
<1>2. ASSUME NEW k \in U PROVE k \in K \/ \E i \in 1..n : StartOf(g[i], t, k)
  BY <1>1 DEF Announced
<1>3. ASSUME NEW k \in V PROVE k \in K \/ \E i \in DOMAIN g : StartOf(g[i], t, k)
  <2>1. CASE k \in U
    <3>1. 1..n \subseteq 1..n+1
      OBVIOUS
    <3> QED BY <1>1, <1>2, <2>1, <3>1
  <2>2. CASE StartOf(m, t, k)
    BY <1>1, <2>2
  <2> QED BY <2>1, <2>2
<1>4. ASSUME NEW h \in DOMAIN g, NEW k \in Nat, UseOf(g[h], t, k)
      PROVE  k \in K \/ \E i \in 1..h - 1 : StartOf(g[i], t, k)
  <2>0. h \in 1..n+1
    BY <1>1
  <2>1. CASE h = n + 1
    <3>1. h - 1 = n
      BY <2>1
    <3>2. k \in U
      BY <1>1, <1>4, <2>1
    <3> QED BY <1>2, <3>1, <3>2
  <2>2. CASE h # n + 1
    <3>1. h \in 1..n /\ 1..h - 1 \subseteq 1..n
      BY <2>0, <2>2
    <3>2. k \in K \/ \E i \in 1..h - 1 : StartOf(f[i], t, k)
      BY <1>1, <1>4, <3>1 DEF Announced
    <3> QED BY <1>1, <3>1, <3>2
  <2> QED BY <2>1, <2>2
<1> QED BY <1>3, <1>4 DEF Announced

\* ... when fewer calls are meant or more have cards ...
LEMMA AnnouncedLess ==
  ASSUME NEW f, NEW U, NEW V, NEW t, NEW K, NEW L, Announced(f, U, t, K), V \subseteq U, K \subseteq L
  PROVE  Announced(f, V, t, L)
BY DEF Announced

\* The i-th message left the way; those before it are late.
Without(g, f, i) == \E n \in Nat :
  /\ DOMAIN f = 1..n+1 /\ DOMAIN g = 1..n /\ i \in 1..n+1
  /\ \A j \in 1..n : \/ /\ j < i /\ g[j].late
                        /\ g[j].msg = f[j].msg /\ g[j].was = f[j].was /\ g[j].odd = f[j].odd
                     \/ j >= i /\ g[j] = f[j + 1]
\* A message that arrives is gone from the way, and those before it are late.
LEMMA ArrivedWithout ==
  ASSUME TypesRight, NEW i \in DOMAIN flight, Arrived(i)
  PROVE  Without(flight', flight, i)
<1>1. flight \in Seq(EntryT) /\ \A k \in DOMAIN flight : flight[k] \in EntryT
  BY FlightEntries
<1>2. PICK g : g = flight'
  OBVIOUS
<1>3. g = [j \in 1..Len(flight) - 1 |-> IF j < i THEN [flight[j] EXCEPT !.late = TRUE] ELSE flight[j + 1]]
  BY <1>2 DEF Arrived
<1>4. PICK n \in Nat : n = Len(flight) - 1
  BY <1>1, LenProperties
<1>5. DOMAIN flight = 1..n+1 /\ DOMAIN g = 1..n /\ i \in 1..n+1
  BY <1>1, <1>3, <1>4, LenProperties
<1>6. ASSUME NEW j \in 1..n
      PROVE \/ /\ j < i /\ g[j].late
               /\ g[j].msg = flight[j].msg /\ g[j].was = flight[j].was /\ g[j].odd = flight[j].odd
            \/ j >= i /\ g[j] = flight[j + 1]
  <2>1. CASE j < i
    <3>1. g[j] = [flight[j] EXCEPT !.late = TRUE] /\ flight[j] \in EntryT
      BY <1>1, <1>3, <1>4, <1>5, <2>1
    <3> QED BY <2>1, <3>1 DEF EntryT
  <2>2. CASE ~(j < i)
    BY <1>3, <1>4, <1>5, <2>2
  <2> QED BY <2>1, <2>2
<1> QED BY <1>2, <1>5, <1>6 DEF Without

\* ... and when a message arrives.
LEMMA AnnouncedShorter ==
  ASSUME NEW f, NEW g, NEW i, Without(g, f, i), NEW U, NEW t, NEW K, NEW L, Announced(f, U, t, K),
         K \subseteq L, \A k \in Nat : StartOf(f[i], t, k) => k \in L, U \subseteq Nat
  PROVE  Announced(g, U, t, L)
<1>1. PICK n \in Nat :
        /\ DOMAIN f = 1..n+1 /\ DOMAIN g = 1..n /\ i \in 1..n+1
        /\ \A j \in 1..n : \/ /\ j < i /\ g[j].late
                              /\ g[j].msg = f[j].msg /\ g[j].was = f[j].was /\ g[j].odd = f[j].odd
                           \/ j >= i /\ g[j] = f[j + 1]
  BY DEF Without
<1>2. ASSUME NEW k \in Nat, NEW m \in 1..n+1, \E x \in 1..m : StartOf(f[x], t, k)
      PROVE  k \in L \/ \E x \in 1..n : (x <= m - 1 \/ (x <= m /\ x < i)) /\ StartOf(g[x], t, k)
  <2>1. PICK x \in 1..m : StartOf(f[x], t, k)
    BY <1>2
  <2>2. CASE x = i
    BY <2>1, <2>2
  <2>3. CASE x < i
    <3>1. x \in 1..n /\ g[x].msg = f[x].msg
      BY <1>1, <2>3
    <3>2. StartOf(g[x], t, k)
      BY <2>1, <3>1 DEF StartOf
    <3> QED BY <2>3, <3>1, <3>2
  <2>4. CASE x > i
    <3>1. x - 1 \in 1..n /\ x - 1 >= i /\ ~(x - 1 < i) /\ (x - 1) + 1 = x /\ x - 1 <= m - 1
      BY <1>1, <2>4
    <3>2. g[x - 1] = f[x]
      BY <1>1, <3>1
    <3> QED BY <2>1, <3>1, <3>2
  <2> QED BY <1>1, <2>2, <2>3, <2>4
<1>3. ASSUME NEW k \in U PROVE k \in L \/ \E x \in DOMAIN g : StartOf(g[x], t, k)
  <2>1. k \in K \/ \E x \in 1..n+1 : StartOf(f[x], t, k)
    BY <1>1 DEF Announced
  <2>2. n + 1 \in 1..n+1 /\ k \in Nat
    OBVIOUS
  <2> QED BY <1>1, <1>2, <2>1, <2>2
<1>4. ASSUME NEW h \in DOMAIN g, NEW k \in Nat, UseOf(g[h], t, k)
      PROVE  k \in L \/ \E x \in 1..h - 1 : StartOf(g[x], t, k)
  <2>0. h \in 1..n
    BY <1>1
  <2>1. CASE h < i
    <3>1. h \in 1..n+1 /\ UseOf(f[h], t, k)
      BY <1>1, <1>4, <2>0, <2>1 DEF UseOf
    <3>2. k \in K \/ \E x \in 1..h - 1 : StartOf(f[x], t, k)
      BY <1>1, <3>1 DEF Announced
    <3>3. ASSUME NEW x \in 1..h - 1, StartOf(f[x], t, k) PROVE StartOf(g[x], t, k)
      <4>1. x \in 1..n /\ x < i /\ g[x].msg = f[x].msg
        BY <1>1, <2>0, <2>1
      <4> QED BY <3>3, <4>1 DEF StartOf
    <3> QED BY <3>2, <3>3
  <2>2. CASE ~(h < i)
    <3>1. h + 1 \in 1..n+1 /\ UseOf(f[h + 1], t, k)
      BY <1>1, <1>4, <2>0, <2>2 DEF UseOf
    <3>2. k \in K \/ \E x \in 1..(h + 1) - 1 : StartOf(f[x], t, k)
      BY <1>1, <3>1 DEF Announced
    <3>3. (h + 1) - 1 = h /\ h \in 1..n+1
      BY <2>0
    <3>4. k \in L \/ \E x \in 1..n : (x <= h - 1 \/ (x <= h /\ x < i)) /\ StartOf(g[x], t, k)
      BY <1>2, <3>2, <3>3
    <3>5. ASSUME NEW x \in 1..n, x <= h - 1 \/ (x <= h /\ x < i) PROVE x \in 1..h - 1
      BY <1>1, <2>0, <2>2, <3>5
    <3> QED BY <3>4, <3>5
  <2> QED BY <2>1, <2>2
<1> QED BY <1>3, <1>4 DEF Announced

-----------------------------------------------------------------------------
\* The calls of turn t after a step that applies an action: those before, and the one it starts.
LEMMA EmitUsed ==
  ASSUME HostInv, NEW e, NEW a, EmitStep(e, a), NEW t \in Nat, t # 0,
         NEW k \in UsedBy(agent', ask', chat', t)
  PROVE  k \in UsedNow(t) \/ StartOf(Entry(e, a), t, k)
<1>1. /\ TypesRight /\ chat \in ChatT /\ active \in TurnT /\ active = chat.active
      /\ e \in {"agent", "ask", "reader"} /\ a \in ActionT
  BY HostFacts DEF EmitStep
<1>2. Entry(e, a).msg = a
  BY DEF Entry
<1>3. k \in Nat
  BY DEF UsedBy
<1>4. CASE agent'.step = "toolCallReady" /\ agent'.turn = t /\ agent'.tool = k
  BY <1>2, <1>3, <1>4 DEF EmitStep, UsedNow, UsedBy, StartOf
<1>5. CASE ask'.step = "toolCallReady" /\ ask'.turn = t /\ ask'.tool = k
  BY <1>2, <1>3, <1>5 DEF EmitStep, UsedNow, UsedBy, StartOf
<1>6. CASE chat'.active.id = t /\ HasCall(chat'.active, k)
  <2>1. chat' = Applied(chat, a)
    BY <1>1, EmitIs DEF EmitStep
  <2>2. PICK d : d = Applied(chat, a)
    OBVIOUS
  <2>3. d.active.id = t /\ HasCall(d.active, k)
    BY <1>6, <2>1, <2>2
  <2>4. CASE a.type = "turnStarted"
    <3>1. d.active.parts = << >>
      BY <1>1, <2>2, <2>4, AppliedIs, StartFacts
    <3> QED BY <2>3, <3>1 DEF HasCall
  <2>5. CASE d.active = chat.active
    BY <1>3, <2>3, <2>5 DEF UsedNow, UsedBy
  <2>6. CASE a.type # "turnStarted" /\ a.turn = chat.active.id /\ d.active = Reduced(chat.active, a)
    <3>1. d.active.id = chat.active.id
      BY <1>1, <2>6, ReducedKeeps
    <3>2. HasCall(chat.active, k) \/ (a.type = "toolCallStart" /\ k = a.tool)
      BY <1>1, <2>3, <2>6, ReducedCalls
    <3> QED BY <1>2, <1>3, <2>3, <2>6, <3>1, <3>2 DEF UsedNow, UsedBy, StartOf
  <2> QED BY <1>1, <2>2, <2>3, <2>4, <2>5, <2>6, ActiveAfter
<1> QED BY <1>4, <1>5, <1>6 DEF UsedBy

\* A turn that starts has no calls.
LEMMA StartUsed ==
  ASSUME HostInv, NEW e, NEW a, EmitStep(e, a), a.type = "turnStarted", NEW k
  PROVE  k \notin UsedBy(agent', ask', chat', a.turn)
<1>1. /\ TypesRight /\ chat \in ChatT
      /\ e \in {"agent", "ask", "reader"} /\ a \in ActionT
  BY HostFacts DEF EmitStep
<1>2. chat'.active.parts = << >>
  BY <1>1, EmitIs, AppliedIs, StartFacts DEF EmitStep
<1>3. ~HasCall(chat'.active, k)
  BY <1>2 DEF HasCall
<1>4. ~(agent'.step = "toolCallReady" /\ agent'.turn = a.turn)
  BY DEF EmitStep
<1>5. ~(ask'.step = "toolCallReady" /\ ask'.turn = a.turn)
  BY DEF EmitStep
<1> QED BY <1>3, <1>4, <1>5 DEF UsedBy

\* What is said of a call is said of one the turn has.
LEMMA EmitUses ==
  ASSUME HostInv, NEW e, NEW a, EmitStep(e, a), NEW t \in Nat, NEW k \in Nat, UseOf(Entry(e, a), t, k)
  PROVE  k \in UsedNow(t)
<1>1. /\ Entry(e, a).msg = a /\ Entry(e, a).was = chat
      /\ Entry(e, a).odd = (a.type # "snapshot" /\ Odd(a))
  BY DEF Entry
<1>2. a.type \in {"toolCallReady", "toolCallComplete"} /\ a.turn = t /\ a.tool = k /\ ~Odd(a)
  BY <1>1 DEF UseOf
<1>3. a.turn = chat.active.id
  BY <1>2 DEF Odd, active
<1>4. Meets(a, chat, Permission)
  BY <1>1 DEF EmitStep, MessageGood
<1>5. HasCall(chat.active, a.tool)
  BY <1>2, <1>3, <1>4 DEF Meets, CallIn, HasCall
<1> QED BY <1>2, <1>3, <1>5 DEF UsedNow, UsedBy

\* A turn nobody heard of has no calls, and nothing on the way is about it.
LEMMA UnusedCalls ==
  ASSUME HostInv, NEW t \in Nat, t # 0, Unused(t), NEW K
  PROVE  UsedNow(t) = {} /\ Announced(flight, {}, t, K)
<1>1. agent.turn # t /\ ask.turn # t
  BY DEF Unused
<1>2. chat.active.id # t
  BY HostFacts DEF Unused, Ids
<1>3. \A n \in DOMAIN flight, k \in Nat : ~UseOf(flight[n], t, k)
  BY DEF Unused, UseOf
<1> QED BY <1>1, <1>2, <1>3 DEF UsedNow, UsedBy, Announced

\* A message that is no call's start reveals no new call.
LEMMA EmitAnnounced ==
  ASSUME HostInv, NEW e, NEW a, EmitStep(e, a), AddedTo(flight', flight, Entry(e, a)),
         NEW t \in Nat, t # 0, NEW K, Announced(flight, UsedNow(t), t, K)
  PROVE  Announced(flight', UsedBy(agent', ask', chat', t), t, K)
<1>1. PICK U : U = UsedNow(t)
  OBVIOUS
<1>2. PICK W : W = UsedBy(agent', ask', chat', t)
  OBVIOUS
<1>3. PICK g : g = flight'
  OBVIOUS
<1>4. PICK m : m = Entry(e, a)
  OBVIOUS
<1>5. \A k \in W : k \in U \/ StartOf(m, t, k)
  BY <1>1, <1>2, <1>4, EmitUsed
<1>6. \A k \in Nat : UseOf(m, t, k) => k \in U
  BY <1>1, <1>4, EmitUses
<1>7. Announced(g, W, t, K)
  BY <1>1, <1>3, <1>4, <1>5, <1>6, AnnouncedAdds
<1> QED BY <1>2, <1>3, <1>7

-----------------------------------------------------------------------------
\* The window's requests after the reader took the first one, or none.
ReaderTook == uplink' = uplink \/ (uplink # << >> /\ uplink' = Tail(uplink) /\ uplink[1].type # "subscribe")
\* Requests stay behind their subscription when the reader takes one.
LEMMA TakenKeeps ==
  ASSUME TypesRight, Subscribing, ReaderTook, subscribed' = subscribed, link' = link,
         ~subscribed => flight' = flight
  PROVE  Subscribing' /\ (~subscribed => uplink' = uplink)
<1>1. uplink \in Seq(RequestT)
  BY DEF TypesRight, NetT
<1>2. CASE uplink' = uplink
  BY <1>2 DEF Subscribing
<1>3. CASE uplink # << >> /\ uplink' = Tail(uplink) /\ uplink[1].type # "subscribe"
  <2>1. 1 \in DOMAIN uplink
    BY <1>1, <1>3, Tails
  <2>2. subscribed
    <3>1. subscribed \/ \E j \in 1..1 - 1 : uplink[j].type = "subscribe"
      BY <1>3, <2>1 DEF Subscribing
    <3>2. 1..1 - 1 = {}
      OBVIOUS
    <3> QED BY <3>1, <3>2
  <2> QED BY <2>2 DEF Subscribing
<1> QED BY <1>2, <1>3 DEF ReaderTook

\* Steps that apply an action keep the parts of TextInv: the subscription ...
LEMMA EmitTaken ==
  ASSUME HostInv, Subscribing, NEW e, NEW a, EmitStep(e, a)
  PROVE  /\ Subscribing' /\ (~subscribed => uplink' = uplink /\ flight = << >> /\ flight' = flight)
         /\ subscribed => AddedTo(flight', flight, Entry(e, a))
<1>1. TypesRight /\ e \in {"agent", "ask", "reader"} /\ a \in ActionT /\ Emit(e, a)
  BY DEF EmitStep, HostInv
<1>2. /\ ~subscribed => flight' = flight
      /\ subscribed => AddedTo(flight', flight, Entry(e, a))
  BY <1>1, EmitIs
<1>3. ReaderTook
  BY DEF EmitStep, UplinkStep, ReaderTook
<1>4. subscribed' = subscribed /\ link' = link
  BY DEF EmitStep, clientVars
<1> QED BY <1>1, <1>2, <1>3, <1>4, TakenKeeps DEF Subscribing

\* ... the turn of a window that is not subscribed ...
LEMMA EmitUnsubscribed ==
  ASSUME HostInv, Subscribing, Unsubscribed, NEW e, NEW a, EmitStep(e, a)
  PROVE  Unsubscribed'
<1>1. subscribed' = subscribed /\ blurred' = blurred /\ view' = view
  BY DEF EmitStep, clientVars
<1>2. ~subscribed => uplink' = uplink
  BY EmitTaken
<1> QED BY <1>1, <1>2 DEF Unsubscribed

\* ... the starts on the way ...
LEMMA EmitStarts ==
  ASSUME HostInv, Subscribing, StartsOnTheWay, NEW e, NEW a, EmitStep(e, a)
  PROVE  StartsOnTheWay'
<1>1. /\ TypesRight /\ flight \in Seq(EntryT) /\ \A k \in DOMAIN flight : flight[k] \in EntryT
      /\ a \in ActionT /\ a.turn \in Nat /\ a.turn # 0
  BY FlightEntries DEF HostInv, EmitStep, ActionT
<1>2. CASE ~subscribed
  <2>1. flight' = << >>
    BY <1>2, EmitTaken
  <2>2. DOMAIN flight' = {}
    BY <2>1
  <2> QED BY <2>2 DEF StartsOnTheWay
<1>3. CASE subscribed
  <2>1. AddedTo(flight', flight, Entry(e, a))
    BY <1>3, EmitTaken
  <2>2. PICK n \in Nat : /\ DOMAIN flight = 1..n /\ DOMAIN flight' = 1..n+1
                         /\ flight'[n+1] = Entry(e, a) /\ \A i \in 1..n : flight'[i] = flight[i]
    BY <2>1 DEF AddedTo
  <2>3. Entry(e, a).msg = a
    BY DEF Entry
  <2>4. ASSUME NEW j \in DOMAIN flight', flight'[j].msg.type = "turnStarted", ~flight'[j].late
        PROVE  Announced(flight', UsedBy(agent', ask', chat', flight'[j].msg.turn), flight'[j].msg.turn, {})
    <3>0. PICK t : t = flight'[j].msg.turn
      OBVIOUS
    <3>1. CASE j \in 1..n
      <4>1. flight'[j] = flight[j] /\ j \in DOMAIN flight
        BY <2>2, <3>1
      <4>2. Announced(flight, UsedNow(t), t, {})
        BY <2>4, <3>0, <4>1 DEF StartsOnTheWay
      <4>3. t \in Nat /\ t # 0
        <5>1. flight[j] \in EntryT /\ MessageGood(flight[j], count.turn, count.tool, Permission, ask.turn)
          BY <1>1, <4>1 DEF HostInv, HostGood, WasGood
        <5>2. t \in 1..count.turn
          BY <2>4, <3>0, <4>1, <5>1 DEF MessageGood, Says
        <5> QED BY <5>2, HostFacts
      <4> QED BY <2>1, <3>0, <4>2, <4>3, EmitAnnounced
    <3>2. CASE j = n + 1
      <4>1. t = a.turn /\ a.type = "turnStarted"
        BY <2>2, <2>3, <2>4, <3>0, <3>2
      <4>2. UsedBy(agent', ask', chat', t) = {}
        BY <4>1, StartUsed
      <4>3. ASSUME NEW h \in DOMAIN flight', NEW k \in Nat PROVE ~UseOf(flight'[h], t, k)
        <5>1. CASE h \in 1..n
          <6>1. flight'[h] = flight[h] /\ flight[h].msg.turn # a.turn
            BY <2>2, <4>1, <5>1 DEF EmitStep
          <6> QED BY <4>1, <6>1 DEF UseOf
        <5>2. CASE h = n + 1
          BY <2>2, <2>3, <4>1, <5>2 DEF UseOf
        <5> QED BY <2>2, <5>1, <5>2
      <4> QED BY <3>0, <4>2, <4>3 DEF Announced
    <3> QED BY <2>2, <3>1, <3>2
  <2> QED BY <2>4 DEF StartsOnTheWay, UsedNow
<1> QED BY <1>2, <1>3

\* ... the cards ...
LEMMA EmitCards ==
  ASSUME HostInv, Subscribing, Unsubscribed, CardsKnown, NEW e, NEW a, EmitStep(e, a)
  PROVE  CardsKnown'
<1>1. view' = view /\ blurred' = blurred /\ restored' = restored
  BY DEF EmitStep, clientVars
<1>2. SUFFICES ASSUME ~blurred, view.proj # 0, view.proj # restored
               PROVE  Announced(flight', UsedBy(agent', ask', chat', view.proj), view.proj, Calls(view.rows))
  BY <1>1 DEF CardsKnown, OwnTurn, UsedNow
<1>3. view.proj \in Nat
  BY DEF HostInv, TypesRight, WindowT, ViewT
<1>4. CASE subscribed
  BY <1>2, <1>3, <1>4, EmitTaken, EmitAnnounced DEF CardsKnown, OwnTurn
<1>5. CASE ~subscribed
  <2>1. PICK k \in DOMAIN uplink : uplink[k].type = "turnStarted" /\ uplink[k].turn = view.proj
    BY <1>2, <1>5 DEF Unsubscribed
  <2>2. Unused(view.proj)
    BY <2>1 DEF HostInv, OwnFresh
  <2>3. a.turn # view.proj
    <3>1. uplink # << >> /\ uplink' = uplink
      BY <1>5, <2>1, EmitTaken
    <3>2. uplink \in Seq(RequestT)
      BY DEF HostInv, TypesRight, NetT
    <3>3. Tail(uplink) # uplink
      <4>1. PICK n \in Nat : DOMAIN uplink = 1..n+1 /\ DOMAIN Tail(uplink) = 1..n
        BY <3>1, <3>2, Tails DEF TailOf
      <4>2. n + 1 \in 1..n+1 /\ n + 1 \notin 1..n
        OBVIOUS
      <4> QED BY <4>1, <4>2
    <3> QED BY <2>1, <3>1, <3>3 DEF EmitStep, UplinkStep
  <2>4. \A x : x \notin UsedBy(agent', ask', chat', view.proj)
    <3>1. UsedNow(view.proj) = {}
      BY <1>2, <1>3, <2>2, UnusedCalls
    <3>2. \A x : ~StartOf(Entry(e, a), view.proj, x)
      BY <2>3 DEF StartOf, Entry
    <3> QED BY <1>2, <1>3, <3>1, <3>2, EmitUsed
  <2>5. flight' = << >>
    BY <1>5, EmitTaken
  <2>6. DOMAIN flight' = {}
    BY <2>5
  <2> QED BY <2>4, <2>6 DEF Announced
<1> QED BY <1>4, <1>5

\* ... the answer ...
LEMMA EmitAnswer ==
  ASSUME HostInv, Subscribing, AnswerKnown, NEW e, NEW a, EmitStep(e, a)
  PROVE  AnswerKnown'
<1>1. /\ view' = view /\ blurred' = blurred /\ restored' = restored
      /\ ask'.turn = ask.turn /\ Permission' = Permission
  BY DEF EmitStep, clientVars, Permission
<1>2. TypesRight
  BY DEF HostInv
<1>3. \A k \in DOMAIN uplink' : \E i \in DOMAIN uplink : uplink'[k] = uplink[i]
  BY <1>2, UplinkLeft DEF EmitStep
<1>4. flight' = flight \/ AddedTo(flight', flight, Entry(e, a))
  BY EmitTaken
<1>5. Entry(e, a).msg = a
  BY DEF Entry
<1>6. \A k \in DOMAIN flight' : \/ k \in DOMAIN flight /\ flight'[k] = flight[k]
                                \/ flight'[k] = Entry(e, a)
  <2>1. CASE flight' = flight
    BY <2>1
  <2>2. CASE AddedTo(flight', flight, Entry(e, a))
    <3>1. PICK n \in Nat : /\ DOMAIN flight = 1..n /\ DOMAIN flight' = 1..n+1
                           /\ flight'[n+1] = Entry(e, a) /\ \A i \in 1..n : flight'[i] = flight[i]
      BY <2>2 DEF AddedTo
    <3>2. \A k \in 1..n+1 : k \in 1..n \/ k = n + 1
      OBVIOUS
    <3> QED BY <3>1, <3>2
  <2> QED BY <1>4, <2>1, <2>2
<1>7. Confirming' => Confirming
  BY <1>3, <1>5, <1>6 DEF Confirming, EmitStep, Answering
<1>8. ASSUME NEW j \in DOMAIN flight', StartsTurn(flight'[j], ask.turn)
      PROVE  j \in DOMAIN flight /\ flight'[j] = flight[j]
  BY <1>5, <1>6, <1>8 DEF StartsTurn, EmitStep
<1> QED BY <1>1, <1>7, <1>8 DEF AnswerKnown, OwnTurn

\* ... the rows.
LEMMA EmitRows ==
  ASSUME HostInv, Subscribing, RowsKnown, NEW e, NEW a, EmitStep(e, a)
  PROVE  RowsKnown'
<1>1. view' = view /\ blurred' = blurred /\ restored' = restored
  BY DEF EmitStep, clientVars
<1>2. TypesRight /\ count.turn \in Nat
  BY HostFacts
<1>3. count'.turn \in Nat /\ count.turn <= count'.turn
  BY DEF EmitStep, Grows, More
<1>4. \A k \in DOMAIN uplink' : \E i \in DOMAIN uplink : uplink'[k] = uplink[i]
  BY <1>2, UplinkLeft DEF EmitStep
<1>5. flight' = flight \/ AddedTo(flight', flight, Entry(e, a))
  BY EmitTaken
<1>6. Entry(e, a).msg = a
  BY DEF Entry
<1>7. \A k \in DOMAIN flight' : \/ k \in DOMAIN flight /\ flight'[k] = flight[k]
                                \/ flight'[k] = Entry(e, a)
  <2>1. CASE flight' = flight
    BY <2>1
  <2>2. CASE AddedTo(flight', flight, Entry(e, a))
    <3>1. PICK n \in Nat : /\ DOMAIN flight = 1..n /\ DOMAIN flight' = 1..n+1
                           /\ flight'[n+1] = Entry(e, a) /\ \A i \in 1..n : flight'[i] = flight[i]
      BY <2>2 DEF AddedTo
    <3>2. \A k \in 1..n+1 : k \in 1..n \/ k = n + 1
      OBVIOUS
    <3> QED BY <3>1, <3>2
  <2> QED BY <1>5, <2>1, <2>2
<1>8. ASSUME NEW t \in Texted(view.rows) PROVE t \in 0..count'.turn
  <2>1. t \in 0..count.turn
    BY DEF RowsKnown
  <2> QED BY <1>2, <1>3, <2>1
<1>9. ASSUME ~blurred, NEW t \in Texted(view.rows) PROVE NotToStart(uplink', flight', t)
  <2>1. NotToStart(uplink, flight, t) /\ t \in 0..count.turn
    BY <1>9 DEF RowsKnown
  <2>2. ASSUME StartsTurn(Entry(e, a), t) PROVE FALSE
    <3>1. a.type = "turnStarted" /\ a.turn = t
      BY <1>6, <2>2 DEF StartsTurn
    <3>2. Startable(t)
      BY <3>1 DEF EmitStep
    <3> QED BY <1>2, <2>1, <3>2 DEF Startable, NotToStart
  <2> QED BY <1>4, <1>7, <2>1, <2>2 DEF NotToStart
<1> QED BY <1>1, <1>8, <1>9 DEF RowsKnown, OwnTurn

-----------------------------------------------------------------------------
\* A request on the screen is a card of the request's call.
LEMMA ApprovedCard ==
  ASSUME HostInv, Approved(view.rows)
  PROVE  Permission \in Calls(view.rows)
BY DEF HostInv, RequestGood, Approved, Calls, IsCard

\* What steps leave of the requests that are on their way to the host.
UplinkPlain(r) == \/ \E i \in DOMAIN uplink : r = uplink[i]
                  \/ /\ r.type # "turnStarted"
                     /\ r.type = "toolCallConfirmed" => Approved(view.rows)

\* The steps of the window and of the reader that leave the chat, its messages and the rows alone.
LEMMA IdleText ==
  ASSUME HostInv, StartsOnTheWay, CardsKnown, AnswerKnown, RowsKnown,
         UNCHANGED <<chat, agent, ask, flight, view, blurred, restored>>, count'.turn = count.turn,
         \A k \in DOMAIN uplink' : UplinkPlain(uplink'[k])
  PROVE  StartsOnTheWay' /\ CardsKnown' /\ AnswerKnown' /\ RowsKnown'
<1>1. StartsOnTheWay' /\ CardsKnown'
  BY DEF StartsOnTheWay, CardsKnown, OwnTurn, UsedNow
<1>2. Permission' = Permission
  BY DEF Permission
<1>3. Confirming' => Confirming \/ Approved(view.rows)
  BY DEF Confirming, UplinkPlain
<1>4. AnswerKnown'
  BY <1>2, <1>3, ApprovedCard DEF AnswerKnown, OwnTurn
<1>5. ASSUME NEW t, NotToStart(uplink, flight, t) PROVE NotToStart(uplink', flight', t)
  BY <1>5 DEF NotToStart, UplinkPlain
<1>6. RowsKnown'
  BY <1>5 DEF RowsKnown, OwnTurn
<1> QED BY <1>1, <1>4, <1>6

\* One request more.
LEMMA AppendSubscribing ==
  ASSUME TypesRight, Subscribing, Unsubscribed, NEW r \in RequestT, uplink' = Append(uplink, r),
         flight' = flight, subscribed' = subscribed,
         link'.known => link.known \/ r.type = "subscribe",
         r.type # "subscribe" => link.known
  PROVE  /\ Subscribing' /\ (view' = view /\ blurred' = blurred => Unsubscribed')
         /\ \A k \in DOMAIN uplink' : (\E i \in DOMAIN uplink : uplink'[k] = uplink[i]) \/ uplink'[k] = r
         /\ \E k \in DOMAIN uplink' : uplink'[k] = r
<1>1. uplink \in Seq(RequestT)
  BY DEF TypesRight, NetT
<1>2. AddedTo(uplink', uplink, r)
  BY <1>1, AppendAdds
<1>3. PICK n \in Nat : /\ DOMAIN uplink = 1..n /\ DOMAIN uplink' = 1..n+1 /\ uplink'[n+1] = r
                       /\ \A i \in 1..n : uplink'[i] = uplink[i]
  BY <1>2 DEF AddedTo
<1>4. 1..n \subseteq 1..n+1 /\ n + 1 \in 1..n+1 /\ (n + 1) - 1 = n /\ \A k \in 1..n+1 : k \in 1..n \/ k = n + 1
  OBVIOUS
<1>5. ASSUME NEW k \in DOMAIN uplink', uplink'[k].type # "subscribe", ~subscribed
      PROVE  \E j \in 1..k - 1 : uplink'[j].type = "subscribe"
  <2>1. CASE k \in 1..n
    <3>1. PICK j \in 1..k - 1 : uplink[j].type = "subscribe"
      BY <1>3, <1>5, <2>1 DEF Subscribing
    <3>2. j \in 1..n
      BY <2>1
    <3> QED BY <1>3, <3>1, <3>2
  <2>2. CASE k = n + 1
    <3>1. PICK j \in 1..n : uplink[j].type = "subscribe"
      BY <1>3, <1>5, <2>2 DEF Subscribing
    <3> QED BY <1>3, <1>4, <2>2, <3>1
  <2> QED BY <1>3, <1>4, <2>1, <2>2
<1>6. ASSUME link'.known, ~subscribed
      PROVE  \E j \in DOMAIN uplink' : uplink'[j].type = "subscribe"
  BY <1>3, <1>4, <1>6 DEF Subscribing
<1>7. Subscribing'
  BY <1>5, <1>6 DEF Subscribing
<1>8. view' = view /\ blurred' = blurred => Unsubscribed'
  BY <1>3, <1>4 DEF Unsubscribed
<1> QED BY <1>3, <1>4, <1>7, <1>8

\* TextInv through the steps of the window: a subscription ...
LEMMA OpenText ==
  ASSUME HostInv, TextInv, OpenSession
  PROVE  TextInv'
<1>1. PICK r : r = Request("subscribe", 0, "")
  OBVIOUS
<1>2. /\ uplink' = Append(uplink, r)
      /\ UNCHANGED <<chat, agent, ask, flight, view, blurred, restored, subscribed, count>>
  BY <1>1 DEF OpenSession, hostVars, sdkVars
<1>3. r.type = "subscribe" /\ r \in RequestT
  <2>1. "" \in Words
    BY DEF Words
  <2> QED BY <1>1, <2>1, RequestType DEF Request
<1>4. /\ Subscribing' /\ Unsubscribed'
      /\ \A k \in DOMAIN uplink' : (\E i \in DOMAIN uplink : uplink'[k] = uplink[i]) \/ uplink'[k] = r
  BY <1>2, <1>3, AppendSubscribing DEF HostInv, TextInv
<1>5. \A k \in DOMAIN uplink' : UplinkPlain(uplink'[k])
  BY <1>3, <1>4 DEF UplinkPlain
<1>6. StartsOnTheWay' /\ CardsKnown' /\ AnswerKnown' /\ RowsKnown'
  BY <1>2, <1>5, IdleText DEF TextInv
<1> QED BY <1>4, <1>6 DEF TextInv

\* ... a click ...
LEMMA ClickText ==
  ASSUME HostInv, TextInv, NEW ty \in {"turnCancelled", "toolCallConfirmed"}, NEW no \in Words,
         Click(ty, no), ty = "toolCallConfirmed" => Approved(view.rows)
  PROVE  TextInv'
<1>1. PICK r : r = Request(ty, view.turn, no)
  OBVIOUS
<1>2. /\ uplink' = Append(uplink, r) /\ link.known /\ link' = link
      /\ UNCHANGED <<chat, agent, ask, flight, view, blurred, restored, subscribed, count>>
  BY <1>1 DEF Click, hostVars, sdkVars
<1>3. r.type = ty /\ r \in RequestT
  <2>1. view.turn \in Nat
    BY DEF HostInv, TypesRight, WindowT, ViewT
  <2> QED BY <1>1, <2>1, RequestType DEF Request
<1>4. /\ Subscribing' /\ Unsubscribed'
      /\ \A k \in DOMAIN uplink' : (\E i \in DOMAIN uplink : uplink'[k] = uplink[i]) \/ uplink'[k] = r
  BY <1>2, <1>3, AppendSubscribing DEF HostInv, TextInv
<1>5. \A k \in DOMAIN uplink' : UplinkPlain(uplink'[k])
  BY <1>3, <1>4 DEF UplinkPlain
<1>6. StartsOnTheWay' /\ CardsKnown' /\ AnswerKnown' /\ RowsKnown'
  BY <1>2, <1>5, IdleText DEF TextInv
<1> QED BY <1>4, <1>6 DEF TextInv

\* ... which is a cancellation or an answer ...
LEMMA AnswerText ==
  ASSUME HostInv, ScreenOf(screen, view.rows), TextInv, Cancel \/ Answer
  PROVE  TextInv'
<1>1. "" \in Words /\ "approved" \in Words /\ "denied" \in Words
  BY DEF Words
<1>2. CASE Cancel
  BY <1>1, <1>2, ClickText DEF Cancel
<1>3. CASE Answer
  <2>1. PICK i \in DOMAIN screen.interruption.elements :
          \E b \in screen.interruption.elements[i].buttons :
             Click("toolCallConfirmed", IF b = "Allow" THEN "approved" ELSE "denied")
    BY <1>3 DEF Answer
  <2>2. Approved(view.rows)
    BY ButtonShown DEF Approved
  <2>3. PICK no \in Words : Click("toolCallConfirmed", no)
    BY <1>1, <2>1
  <2> QED BY <2>2, <2>3, ClickText
<1> QED BY <1>2, <1>3

\* ... a connection ...
LEMMA ConnectText ==
  ASSUME HostInv, TextInv, Connect
  PROVE  TextInv'
<1>1. /\ UNCHANGED <<chat, agent, ask, flight, view, blurred, restored, subscribed, uplink, count>>
      /\ ~link'.known
  BY DEF Connect, hostVars, sdkVars, netVars
<1>2. Subscribing' /\ Unsubscribed'
  BY <1>1 DEF TextInv, Subscribing, Unsubscribed
<1>3. StartsOnTheWay' /\ CardsKnown' /\ AnswerKnown' /\ RowsKnown'
  BY <1>1, IdleText DEF TextInv, UplinkPlain
<1> QED BY <1>2, <1>3 DEF TextInv

\* A request that is taken back or answered already.
LEMMA ResolveText ==
  ASSUME HostInv, TextInv, ReaderTakes("toolCallConfirmed"),
         UNCHANGED <<chat, registered, flight, count, agent, ask, subscribed, clientVars>>
  PROVE  TextInv'
<1>1. /\ TypesRight /\ view' = view /\ blurred' = blurred /\ restored' = restored /\ link' = link
      /\ uplink \in Seq(RequestT)
  BY DEF HostInv, clientVars, TypesRight, NetT
<1>2. /\ uplink # << >> /\ uplink' = Tail(uplink) /\ uplink[1].type = "toolCallConfirmed"
  BY TakenFacts
<1>3. Subscribing' /\ (~subscribed => uplink' = uplink)
  BY <1>1, <1>2, TakenKeeps DEF TextInv, ReaderTook
<1>4. Unsubscribed'
  BY <1>1, <1>3 DEF TextInv, Unsubscribed
<1>5. \A k \in DOMAIN uplink' : UplinkPlain(uplink'[k])
  <2>1. PICK n \in Nat : DOMAIN uplink = 1..n+1 /\ DOMAIN uplink' = 1..n /\ \A i \in 1..n : uplink'[i] = uplink[i + 1]
    BY <1>1, <1>2, Tails DEF TailOf
  <2>2. \A i \in 1..n : i + 1 \in 1..n+1
    OBVIOUS
  <2> QED BY <2>1, <2>2 DEF UplinkPlain
<1>6. StartsOnTheWay' /\ CardsKnown' /\ AnswerKnown' /\ RowsKnown'
  BY <1>1, <1>5, IdleText DEF TextInv
<1> QED BY <1>3, <1>4, <1>6 DEF TextInv

\* ... and its loss.
LEMMA DropText ==
  ASSUME HostInv, TextInv, Drop
  PROVE  TextInv'
<1>1. /\ uplink' = << >> /\ flight' = << >> /\ blurred' /\ ~subscribed' /\ ~link'.known
      /\ view' = view /\ count' = count
  BY DEF Drop, hostVars
<1>2. DOMAIN uplink' = {} /\ DOMAIN flight' = {}
  BY <1>1
<1>3. Subscribing' /\ Unsubscribed'
  BY <1>1, <1>2 DEF Subscribing, Unsubscribed
<1>4. StartsOnTheWay' /\ CardsKnown' /\ AnswerKnown'
  BY <1>1, <1>2 DEF StartsOnTheWay, CardsKnown, AnswerKnown, Confirming
<1>5. RowsKnown'
  BY <1>1 DEF TextInv, RowsKnown
<1> QED BY <1>3, <1>4, <1>5 DEF TextInv

-----------------------------------------------------------------------------
\* One row is new, or changed and still what it was.
Kin(x, y) == /\ IsCard(x) <=> IsCard(y)
             /\ x.kind = "agent" <=> y.kind = "agent"
             /\ IsCard(y) => x.tool = y.tool
             /\ y.kind = "agent" => x.turn = y.turn /\ x.segment = y.segment
PutAt(q, rows, i, x) == /\ i \in DOMAIN rows /\ DOMAIN q = DOMAIN rows /\ q[i] = x
                        /\ \A j \in DOMAIN rows : j # i => q[j] = rows[j]
Touched(q, rows, x) ==
  \/ AddedTo(q, rows, x) /\ (IsCard(x) => x.tool \notin Calls(rows))
  \/ \E i \in DOMAIN rows : PutAt(q, rows, i, x) /\ Kin(rows[i], x)

\* What such a change leaves of the rows ...
LEMMA TouchedRows ==
  ASSUME NEW q, NEW rows, NEW x, Touched(q, rows, x)
  PROVE  /\ \A i \in DOMAIN q : q[i] = x \/ (i \in DOMAIN rows /\ q[i] = rows[i])
         /\ \A i \in DOMAIN rows : i \in DOMAIN q /\ (q[i] = rows[i] \/ (q[i] = x /\ Kin(rows[i], x)))
         /\ \E i \in DOMAIN q : q[i] = x
<1>1. CASE AddedTo(q, rows, x)
  <2>1. PICK n \in Nat : /\ DOMAIN rows = 1..n /\ DOMAIN q = 1..n+1 /\ q[n+1] = x
                         /\ \A i \in 1..n : q[i] = rows[i]
    BY <1>1 DEF AddedTo
  <2>2. 1..n \subseteq 1..n+1 /\ n + 1 \in 1..n+1 /\ \A k \in 1..n+1 : k \in 1..n \/ k = n + 1
    OBVIOUS
  <2> QED BY <2>1, <2>2
<1>2. CASE \E i \in DOMAIN rows : PutAt(q, rows, i, x) /\ Kin(rows[i], x)
  BY <1>2 DEF PutAt
<1> QED BY <1>1, <1>2 DEF Touched

\* ... and of the calls with cards, the turns with text and the requests.
LEMMA TouchedSets ==
  ASSUME NEW q, NEW rows, NEW x, Touched(q, rows, x)
  PROVE  /\ \A k : k \in Calls(q) <=> k \in Calls(rows) \/ (IsCard(x) /\ k = x.tool)
         /\ \A t : t \in Texted(q) <=> t \in Texted(rows) \/ (x.kind = "agent" /\ t = x.turn)
         /\ Approved(q) => Approved(rows) \/ x.kind = "approval"
<1>1. /\ \A i \in DOMAIN q : q[i] = x \/ (i \in DOMAIN rows /\ q[i] = rows[i])
      /\ \A i \in DOMAIN rows : i \in DOMAIN q /\ (q[i] = rows[i] \/ (q[i] = x /\ Kin(rows[i], x)))
      /\ \E i \in DOMAIN q : q[i] = x
  BY TouchedRows
<1>2. ASSUME NEW k PROVE k \in Calls(q) <=> k \in Calls(rows) \/ (IsCard(x) /\ k = x.tool)
  <2>1. ASSUME k \in Calls(q) PROVE k \in Calls(rows) \/ (IsCard(x) /\ k = x.tool)
    BY <1>1, <2>1 DEF Calls
  <2>2. ASSUME k \in Calls(rows) PROVE k \in Calls(q)
    <3>1. PICK i \in DOMAIN rows : IsCard(rows[i]) /\ rows[i].tool = k
      BY <2>2 DEF Calls
    <3>2. i \in DOMAIN q /\ IsCard(q[i]) /\ q[i].tool = k
      BY <1>1, <3>1 DEF Kin
    <3> QED BY <3>2 DEF Calls
  <2>3. ASSUME IsCard(x), k = x.tool PROVE k \in Calls(q)
    BY <1>1, <2>3 DEF Calls
  <2> QED BY <2>1, <2>2, <2>3
<1>3. ASSUME NEW t PROVE t \in Texted(q) <=> t \in Texted(rows) \/ (x.kind = "agent" /\ t = x.turn)
  <2>1. ASSUME t \in Texted(q) PROVE t \in Texted(rows) \/ (x.kind = "agent" /\ t = x.turn)
    BY <1>1, <2>1 DEF Texted
  <2>2. ASSUME t \in Texted(rows) PROVE t \in Texted(q)
    <3>1. PICK i \in DOMAIN rows : rows[i].kind = "agent" /\ rows[i].turn = t
      BY <2>2 DEF Texted
    <3>2. i \in DOMAIN q /\ q[i].kind = "agent" /\ q[i].turn = t
      BY <1>1, <3>1 DEF Kin
    <3> QED BY <3>2 DEF Texted
  <2>3. ASSUME x.kind = "agent", t = x.turn PROVE t \in Texted(q)
    BY <1>1, <2>3 DEF Texted
  <2> QED BY <2>1, <2>2, <2>3
<1>4. Approved(q) => Approved(rows) \/ x.kind = "approval"
  BY <1>1 DEF Approved
<1> QED BY <1>2, <1>3, <1>4

\* Text stays above the calls when it is added in the last segment, or calls begin a new one.
LEMMA TouchedAbove ==
  ASSUME NEW q, NEW rows, NEW x, Touched(q, rows, x), NEW t, NEW g \in Nat, NEW h \in Nat,
         Above(rows, t, g), g <= h, rows \in Seq(RowT), x.segment \in Nat,
         x.kind = "agent" /\ x.turn = t => x.segment <= h,
         IsCard(x) => x.tool \in Calls(rows) \/ g < h
  PROVE  Above(q, t, h)
<1>1. ~(IsCard(x) /\ x.kind = "agent")
  BY DEF IsCard
<1>2. CASE AddedTo(q, rows, x) /\ (IsCard(x) => x.tool \notin Calls(rows))
  <2>1. PICK n \in Nat : /\ DOMAIN rows = 1..n /\ DOMAIN q = 1..n+1 /\ q[n+1] = x
                         /\ \A i \in 1..n : q[i] = rows[i]
    BY <1>2 DEF AddedTo
  <2>2. IsCard(x) => g < h
    BY <1>2
  <2>3. ASSUME NEW i \in 1..n+1, q[i].kind = "agent", q[i].turn = t
        PROVE  q[i].segment <= h /\ (q[i].segment = h => \A j \in 1..n+1 : i < j => ~IsCard(q[j]))
    <3>1. CASE i = n + 1
      BY <2>1, <2>3, <3>1
    <3>2. CASE i # n + 1
      <4>1. i \in 1..n
        BY <3>2
      <4>2. PICK r \in RowT : r = rows[i] /\ q[i] = r
        BY <2>1, <4>1
      <4>3. r.segment \in Nat
        BY <4>2 DEF RowT
      <4>4. r.segment <= g /\ (r.segment = g => \A j \in 1..n : i < j => ~IsCard(rows[j]))
        BY <2>1, <2>3, <4>1, <4>2 DEF Above
      <4>5. r.segment <= h
        BY <4>3, <4>4
      <4>6. ASSUME r.segment = h, NEW j \in 1..n+1, i < j PROVE ~IsCard(q[j])
        <5>1. r.segment = g /\ ~(g < h)
          BY <4>3, <4>4, <4>6
        <5>2. CASE j \in 1..n
          BY <2>1, <4>4, <4>6, <5>1, <5>2
        <5>3. CASE j = n + 1
          BY <2>1, <2>2, <5>1, <5>3
        <5> QED BY <5>2, <5>3
      <4> QED BY <4>2, <4>5, <4>6
    <3> QED BY <3>1, <3>2
  <2> QED BY <2>1, <2>3 DEF Above
<1>3. CASE \E i \in DOMAIN rows : PutAt(q, rows, i, x) /\ Kin(rows[i], x)
  <2>1. PICK k \in DOMAIN rows : PutAt(q, rows, k, x) /\ Kin(rows[k], x)
    BY <1>3
  <2>2. DOMAIN q = DOMAIN rows /\ q[k] = x /\ \A j \in DOMAIN rows : j # k => q[j] = rows[j]
    BY <2>1 DEF PutAt
  <2>3. \A j \in DOMAIN rows : IsCard(q[j]) <=> IsCard(rows[j])
    BY <2>1, <2>2 DEF Kin
  <2>4. ASSUME NEW i \in DOMAIN rows, q[i].kind = "agent", q[i].turn = t
        PROVE  q[i].segment <= h /\ (q[i].segment = h => \A j \in DOMAIN rows : i < j => ~IsCard(q[j]))
    <3>1. rows[i].kind = "agent" /\ rows[i].turn = t /\ q[i].segment = rows[i].segment
      BY <2>1, <2>2, <2>4 DEF Kin
    <3>2. PICK r \in RowT : r = rows[i]
      OBVIOUS
    <3>3. r.segment \in Nat
      BY <3>2 DEF RowT
    <3>4. r.segment <= g /\ (r.segment = g => \A j \in DOMAIN rows : i < j => ~IsCard(rows[j]))
      BY <3>1, <3>2 DEF Above
    <3>5. r.segment <= h /\ (r.segment = h => r.segment = g)
      BY <3>3, <3>4
    <3> QED BY <2>3, <3>1, <3>2, <3>4, <3>5
  <2> QED BY <2>2, <2>4 DEF Above
<1> QED BY <1>2, <1>3 DEF Touched

-----------------------------------------------------------------------------
\* EXCEPT puts a row in a place.
LEMMA PutIs ==
  ASSUME NEW rows \in Seq(RowT), NEW i \in 1..Len(rows), NEW x
  PROVE  PutAt([rows EXCEPT ![i] = x], rows, i, x)
<1>1. DOMAIN rows = 1..Len(rows)
  BY LenProperties
<1> QED BY <1>1 DEF PutAt

\* What rows are called.
LEMMA RowFacts ==
  /\ \A k, t, g, c : /\ Row(k, t, g, c).kind = k /\ Row(k, t, g, c).turn = t
                     /\ Row(k, t, g, c).segment = g /\ Row(k, t, g, c).tool = c
  /\ \A k, t, g, c, x : LET r == [Row(k, t, g, c) EXCEPT !.text = x] IN
        r.kind = k /\ r.turn = t /\ r.segment = g /\ r.tool = c
BY DEF Row

\* Every message changes the rows in that way: a user's message ...
LEMMA UserTouched ==
  ASSUME NEW rows \in Seq(RowT), NEW t \in Nat
  PROVE  \E x \in RowT : Touched(WithUser(rows, t), rows, x) /\ x.kind = "user"
<1>1. PICK x \in RowT : x = Row("user", t, 0, 0)
  <2>1. "user" \in Kinds
    BY DEF Kinds
  <2> QED BY <2>1, RowType
<1>2. x.kind = "user" /\ ~IsCard(x)
  BY <1>1, RowFacts DEF IsCard
<1>3. CASE WithUser(rows, t) = Append(rows, x)
  <2>1. AddedTo(WithUser(rows, t), rows, x)
    BY <1>3, AppendAdds
  <2> QED BY <1>2, <2>1 DEF Touched
<1>4. CASE \E i \in 1..Len(rows) : FirstOf(i, MessageRows(rows, t)) /\ WithUser(rows, t) = [rows EXCEPT ![i] = x]
  <2>1. PICK i \in 1..Len(rows) : FirstOf(i, MessageRows(rows, t)) /\ WithUser(rows, t) = [rows EXCEPT ![i] = x]
    BY <1>4
  <2>2. i \in DOMAIN rows /\ rows[i].kind = "user"
    BY <2>1, LenProperties DEF FirstOf, MessageRows
  <2>3. Kin(rows[i], x)
    BY <1>2, <2>2 DEF Kin, IsCard
  <2>4. PutAt(WithUser(rows, t), rows, i, x)
    BY <2>1, PutIs
  <2> QED BY <1>2, <2>2, <2>3, <2>4 DEF Touched
<1> QED BY <1>1, <1>3, <1>4, UserRows

\* ... text ...
LEMMA DeltaTouched ==
  ASSUME NEW rows \in Seq(RowT), NEW t \in Nat, NEW g \in Nat, NEW y \in Seq(Nat)
  PROVE  \E x \in RowT : /\ Touched(WithDelta(rows, t, g, y), rows, x) /\ x.kind = "agent"
                         /\ x.turn = t /\ x.segment = g
<1>1. CASE WithDelta(rows, t, g, y) = Append(rows, [Row("agent", t, g, 0) EXCEPT !.text = y])
  <2>1. PICK x \in RowT : x = [Row("agent", t, g, 0) EXCEPT !.text = y]
    BY TextRowType
  <2>2. x.kind = "agent" /\ x.turn = t /\ x.segment = g /\ ~IsCard(x)
    BY <2>1, RowFacts DEF IsCard
  <2>3. AddedTo(WithDelta(rows, t, g, y), rows, x)
    BY <1>1, <2>1, AppendAdds
  <2> QED BY <2>2, <2>3 DEF Touched
<1>2. ASSUME NEW i \in 1..Len(rows), FirstOf(i, AgentRows(rows, t, g)), WithDelta(rows, t, g, y) = Grown(rows, i, y)
      PROVE  \E x \in RowT : /\ Touched(WithDelta(rows, t, g, y), rows, x) /\ x.kind = "agent"
                             /\ x.turn = t /\ x.segment = g
  <2>1. PICK r \in RowT : r = rows[i]
    BY ElementOfSeq
  <2>2. r.kind = "agent" /\ r.turn = t /\ r.segment = g
    BY <1>2, <2>1 DEF FirstOf, AgentRows
  <2>3. PICK x : x = [r EXCEPT !.text = @ \o y]
    OBVIOUS
  <2>4. x \in RowT /\ x.kind = "agent" /\ x.turn = t /\ x.segment = g
    <3>1. r.text \in Seq(Nat)
      BY DEF RowT
    <3>2. r.text \o y \in Seq(Nat)
      BY <3>1, ConcatType
    <3> QED BY <2>2, <2>3, <3>2 DEF RowT
  <2>5. WithDelta(rows, t, g, y) = [rows EXCEPT ![i] = x]
    BY <1>2, <2>1, <2>3 DEF Grown
  <2>6. i \in DOMAIN rows
    BY LenProperties
  <2>7. Kin(rows[i], x)
    BY <2>1, <2>2, <2>4 DEF Kin, IsCard
  <2>8. PutAt(WithDelta(rows, t, g, y), rows, i, x)
    BY <2>5, PutIs
  <2> QED BY <2>4, <2>6, <2>7, <2>8 DEF Touched
<1> QED BY <1>1, <1>2, DeltaRows

\* ... a card ...
LEMMA CardTouched ==
  ASSUME NEW v \in ViewT, NEW a \in ActionT
  PROVE  \E x \in RowT : /\ Touched(ToolArrives(v, a).rows, v.rows, x) /\ IsCard(x) /\ x.tool = a.tool
                         /\ x.kind = "approval" => Asks(a, Permission)
<1>0. v.rows \in Seq(RowT) /\ DOMAIN v.rows = 1..Len(v.rows) /\ \A i \in 1..Len(v.rows) : v.rows[i] \in RowT
  BY LenProperties, ElementOfSeq DEF ViewT
<1>1. \A p : /\ CardAfter(p, a).tool = a.tool /\ IsCard(CardAfter(p, a))
             /\ CardAfter(p, a).kind = "approval" => Asks(a, Permission)
  BY CardAfterTool DEF CardAfter, Card, Row, Asks
<1>2. CASE CardsOf(v.rows, a.tool) = {} /\ ToolArrives(v, a).rows = Append(v.rows, CardAfter(NoCard(a.tool), a))
  <2>1. NoCard(a.tool).detail \in Words /\ NoCard(a.tool).summary \in Words
    BY DEF NoCard, Card, Row, Words
  <2>2. PICK x \in RowT : x = CardAfter(NoCard(a.tool), a)
    BY <2>1, CardAfterType
  <2>3. AddedTo(ToolArrives(v, a).rows, v.rows, x)
    BY <1>0, <1>2, <2>2, AppendAdds
  <2>4. a.tool \notin Calls(v.rows)
    BY <1>0, <1>2 DEF CardsOf, Calls
  <2> QED BY <1>1, <2>2, <2>3, <2>4 DEF Touched
<1>3. ASSUME NEW i \in 1..Len(v.rows), FirstOf(i, CardsOf(v.rows, a.tool)),
             ToolArrives(v, a).rows = [v.rows EXCEPT ![i] = CardAfter(v.rows[i], a)]
      PROVE  \E x \in RowT : /\ Touched(ToolArrives(v, a).rows, v.rows, x) /\ IsCard(x) /\ x.tool = a.tool
                             /\ x.kind = "approval" => Asks(a, Permission)
  <2>1. v.rows[i].detail \in Words /\ v.rows[i].summary \in Words
    BY <1>0 DEF RowT
  <2>2. PICK x \in RowT : x = CardAfter(v.rows[i], a)
    BY <2>1, CardAfterType
  <2>3. PutAt(ToolArrives(v, a).rows, v.rows, i, x)
    BY <1>0, <1>3, <2>2, PutIs
  <2>4. IsCard(v.rows[i]) /\ v.rows[i].tool = a.tool /\ v.rows[i].kind # "agent"
    BY <1>3 DEF FirstOf, CardsOf, IsCard
  <2>5. IsCard(x) /\ x.tool = a.tool /\ x.kind # "agent"
    BY <1>1, <2>2 DEF IsCard
  <2>6. Kin(v.rows[i], x)
    BY <2>4, <2>5 DEF Kin
  <2> QED BY <1>0, <1>1, <2>2, <2>3, <2>5, <2>6 DEF Touched
<1> QED BY <1>2, <1>3, ToolShape

\* ... an error.
LEMMA ErrorTouched ==
  ASSUME NEW rows \in Seq(RowT)
  PROVE  \E x \in RowT : Touched(Append(rows, Row("error", 0, 0, 0)), rows, x) /\ x.kind = "error"
<1>1. PICK x \in RowT : x = Row("error", 0, 0, 0)
  <2>1. "error" \in Kinds
    BY DEF Kinds
  <2> QED BY <2>1, RowType
<1>2. x.kind = "error" /\ ~IsCard(x)
  BY <1>1, RowFacts DEF IsCard
<1>3. AddedTo(Append(rows, x), rows, x)
  BY AppendAdds
<1> QED BY <1>1, <1>2, <1>3 DEF Touched

\* What a message that is no snapshot makes of the rows.
LEMMA MessageTouched ==
  ASSUME NEW v \in ViewT, NEW m \in EntryT, m.msg.type # "snapshot", m.msg.type \notin EndTypes
  PROVE  \E x \in RowT :
           /\ Touched(Projected(v, m).rows, v.rows, x)
           /\ IsCard(x) <=> m.msg.type \in ToolTypes
           /\ IsCard(x) => x.tool = m.msg.tool
           /\ x.kind = "agent" <=> m.msg.type \in TextTypes
           /\ x.kind = "agent" => x.turn = v.proj /\ (v.proj # 0 => x.segment = v.segment)
           /\ x.kind = "approval" => Asks(m.msg, Permission)
<1>1. m.msg \in ActionT /\ m.msg.turn \in Nat /\ m.msg.text \in Seq(Nat)
  BY DEF EntryT, ActionT
<1>2. v.rows \in Seq(RowT) /\ v.proj \in Nat /\ v.segment \in Nat
  BY DEF ViewT
<1>3. CASE m.msg.type = "turnStarted" /\ StartShown(Projected(v, m), v, m.msg)
  <2>1. PICK x \in RowT : Touched(Projected(v, m).rows, v.rows, x) /\ x.kind = "user"
    BY <1>1, <1>2, <1>3, UserTouched DEF StartShown
  <2> QED BY <1>3, <2>1 DEF IsCard, ToolTypes, TextTypes
<1>4. CASE m.msg.type \in TextTypes /\ TextShown(Projected(v, m), v, m.msg)
  <2>1. PICK g \in Nat : g = IF v.proj = 0 THEN 0 ELSE v.segment
    BY <1>2
  <2>2. PICK x \in RowT : /\ Touched(Projected(v, m).rows, v.rows, x) /\ x.kind = "agent"
                          /\ x.turn = v.proj /\ x.segment = g
    <3>1. Projected(v, m).rows = WithDelta(v.rows, v.proj, g, m.msg.text)
      BY <1>4, <2>1 DEF TextShown
    <3> QED BY <1>1, <1>2, <3>1, DeltaTouched
  <2> QED BY <1>4, <2>1, <2>2 DEF IsCard, ToolTypes, TextTypes
<1>5. CASE m.msg.type = "error" /\ ErrorShown(Projected(v, m), v)
  <2>1. PICK x \in RowT : Touched(Projected(v, m).rows, v.rows, x) /\ x.kind = "error"
    BY <1>2, <1>5, ErrorTouched DEF ErrorShown
  <2> QED BY <1>5, <2>1 DEF IsCard, ToolTypes, TextTypes
<1>6. CASE m.msg.type \in ToolTypes /\ ToolShown(Projected(v, m), v, m.msg)
  <2>1. PICK x \in RowT : /\ Touched(Projected(v, m).rows, v.rows, x) /\ IsCard(x) /\ x.tool = m.msg.tool
                          /\ x.kind = "approval" => Asks(m.msg, Permission)
    BY <1>1, <1>6, CardTouched DEF ToolShown
  <2> QED BY <1>6, <2>1 DEF IsCard, ToolTypes, TextTypes
<1> QED BY <1>3, <1>4, <1>5, <1>6, ProjectedIs

-----------------------------------------------------------------------------
\* TextInv through a prompt, whose turn has no text and no calls ...
LEMMA PromptText ==
  ASSUME HostInv, TextInv, Prompt
  PROVE  TextInv'
<1>1. PICK t \in Nat : t = count.turn + 1 /\ t # 0
  BY HostFacts
<1>2. PICK r : r = Request("turnStarted", t, "")
  OBVIOUS
<1>0. PICK a : a = Action("turnStarted", t, 0, "")
  OBVIOUS
<1>3. a = Action("turnStarted", t, 0, "") /\ a.turn = t
  BY <1>0 DEF Action
<1>4. /\ uplink' = Append(uplink, r) /\ link.known /\ link' = link
      /\ count' = [count EXCEPT !.turn = t] /\ view' = TurnStarted(view, a)
      /\ UNCHANGED <<chat, agent, ask, flight, blurred, restored, subscribed>>
  BY <1>1, <1>2, <1>3 DEF Prompt, sdkVars
<1>5. /\ TypesRight /\ count \in CountT /\ view \in ViewT /\ view.rows \in Seq(RowT)
  BY DEF HostInv, TypesRight, HostT, WindowT, ViewT
<1>6. r.type = "turnStarted" /\ r.turn = t /\ r \in RequestT
  <2>1. "" \in Words
    BY DEF Words
  <2> QED BY <1>2, <2>1, RequestType DEF Request
<1>7. /\ Subscribing'
      /\ \A k \in DOMAIN uplink' : (\E i \in DOMAIN uplink : uplink'[k] = uplink[i]) \/ uplink'[k] = r
      /\ \E k \in DOMAIN uplink' : uplink'[k] = r
  BY <1>4, <1>5, <1>6, AppendSubscribing DEF TextInv
<1>8. /\ view'.rows = WithUser(view.rows, t) /\ view'.proj = t
  BY <1>3, <1>4, <1>5, StartIs DEF StartShown
<1>9. PICK x \in RowT : Touched(view'.rows, view.rows, x) /\ x.kind = "user"
  BY <1>5, <1>8, UserTouched
<1>10. /\ \A k : k \in Calls(view'.rows) <=> k \in Calls(view.rows)
       /\ \A s : s \in Texted(view'.rows) <=> s \in Texted(view.rows)
       /\ Approved(view'.rows) => Approved(view.rows)
  BY <1>9, TouchedSets DEF IsCard
<1>11. Unused(t) /\ count'.turn = t
  BY <1>1, <1>4, <1>5, NewUnused DEF CountT
<1>12. Unsubscribed'
  BY <1>6, <1>7, <1>8 DEF Unsubscribed
<1>13. StartsOnTheWay'
  BY <1>4 DEF TextInv, StartsOnTheWay, UsedNow
<1>14. CardsKnown'
  <2>1. UsedNow(t) = {} /\ Announced(flight, {}, t, Calls(view'.rows))
    BY <1>1, <1>11, UnusedCalls
  <2>2. Announced(flight', UsedBy(agent', ask', chat', t), t, Calls(view'.rows))
    BY <1>4, <2>1 DEF UsedNow
  <2> QED BY <1>8, <2>2 DEF CardsKnown, UsedNow
<1>15. AnswerKnown'
  <2>1. Confirming' => Confirming
    BY <1>4, <1>6, <1>7 DEF Confirming
  <2>2. ask.turn # t
    BY <1>11 DEF Unused
  <2> QED BY <1>4, <1>8, <1>10, <2>1, <2>2 DEF TextInv, AnswerKnown
<1>16. RowsKnown'
  <2>1. ASSUME NEW s \in Texted(view'.rows) PROVE s \in 0..t /\ s # t
    <3>1. s \in 0..count.turn
      BY <1>10 DEF TextInv, RowsKnown
    <3>2. count.turn \in Nat
      BY HostFacts
    <3> QED BY <1>1, <3>1, <3>2
  <2>2. ASSUME ~blurred, NEW s \in Texted(view'.rows) PROVE NotToStart(uplink', flight', s)
    <3>1. NotToStart(uplink, flight, s) /\ s # t
      BY <1>10, <2>1, <2>2 DEF TextInv, RowsKnown
    <3> QED BY <1>4, <1>6, <1>7, <3>1 DEF NotToStart
  <2>3. Above(view'.rows, view'.proj, view'.segment)
    <3>1. t \notin Texted(view'.rows)
      BY <2>1
    <3> QED BY <1>8, <3>1 DEF Above, Texted
  <2> QED BY <1>4, <1>11, <2>1, <2>2, <2>3 DEF RowsKnown
<1> QED BY <1>7, <1>12, <1>13, <1>14, <1>15, <1>16 DEF TextInv

\* ... a request that is registered ...
LEMMA RegisterText ==
  ASSUME HostInv, TextInv, AskRegisters
  PROVE  TextInv'
<1>1. /\ ask = AskIdle /\ ask'.step = "toolCallStart" /\ count' = [count EXCEPT !.tool = @ + 1]
      /\ UNCHANGED <<chat, agent, netVars, clientVars>>
  BY DEF AskRegisters
<1>2. /\ UNCHANGED <<subscribed, flight, uplink, link, view, blurred, restored>>
  BY <1>1 DEF netVars, clientVars
<1>3. Unasked
  BY <1>1 DEF HostInv, RequestGood, AskIdle
<1>4. ~Confirming /\ ~Approved(view.rows)
  BY <1>3 DEF Unasked, Confirming, Approved, Asks
<1>5. count'.turn = count.turn
  BY <1>1 DEF HostInv, TypesRight, HostT, CountT
<1>6. \A t : UsedBy(agent', ask', chat', t) \subseteq UsedNow(t)
  BY <1>1 DEF UsedBy, UsedNow
<1>7. ASSUME NEW t, NEW K, Announced(flight, UsedNow(t), t, K)
      PROVE  Announced(flight', UsedBy(agent', ask', chat', t), t, K)
  <2>1. PICK V : V = UsedBy(agent', ask', chat', t)
    OBVIOUS
  <2>2. Announced(flight, V, t, K)
    BY <1>6, <1>7, <2>1, AnnouncedLess
  <2> QED BY <1>2, <2>1, <2>2
<1>8. StartsOnTheWay' /\ CardsKnown'
  BY <1>2, <1>7 DEF TextInv, StartsOnTheWay, CardsKnown, OwnTurn, UsedNow
<1>9. Subscribing' /\ Unsubscribed'
  BY <1>2 DEF TextInv, Subscribing, Unsubscribed
<1>10. AnswerKnown'
  BY <1>2, <1>4 DEF AnswerKnown, Confirming
<1>11. RowsKnown'
  BY <1>2, <1>5 DEF TextInv, RowsKnown, OwnTurn
<1> QED BY <1>8, <1>9, <1>10, <1>11 DEF TextInv

\* ... the answer to a subscription.
LEMMA SubscribeText ==
  ASSUME HostInv, TextInv, HostSubscribes
  PROVE  TextInv'
<1>1. PICK m : m = Entry("reader", Snapshot)
  OBVIOUS
<1>2. m.msg.type = "snapshot"
  BY <1>1, SubscribeFacts DEF Entry
<1>3. /\ AddedTo(flight', flight, m) /\ subscribed'
      /\ UNCHANGED <<chat, count, agent, ask, link, view, blurred, restored>>
  BY <1>1, SubscribeFacts DEF HostSubscribes, clientVars
<1>4. PICK n \in Nat : /\ DOMAIN flight = 1..n /\ DOMAIN flight' = 1..n+1 /\ flight'[n+1] = m
                       /\ \A i \in 1..n : flight'[i] = flight[i]
  BY <1>3 DEF AddedTo
<1>5. \A k \in DOMAIN flight' : (k \in DOMAIN flight /\ flight'[k] = flight[k]) \/ flight'[k] = m
  <2>1. \A k \in 1..n+1 : k \in 1..n \/ k = n + 1
    OBVIOUS
  <2> QED BY <1>4, <2>1
<1>6. \A k \in DOMAIN uplink' : \E i \in DOMAIN uplink : uplink'[k] = uplink[i]
  <2>1. uplink # << >> /\ uplink' = Tail(uplink) /\ uplink \in Seq(RequestT)
    BY DEF HostSubscribes, ReaderTakes, HostInv, TypesRight, NetT
  <2>2. PICK l \in Nat : DOMAIN uplink = 1..l+1 /\ DOMAIN uplink' = 1..l /\ \A i \in 1..l : uplink'[i] = uplink[i + 1]
    BY <2>1, Tails DEF TailOf
  <2>3. \A i \in 1..l : i + 1 \in 1..l+1
    OBVIOUS
  <2> QED BY <2>2, <2>3
<1>7. Subscribing' /\ Unsubscribed'
  BY <1>3 DEF Subscribing, Unsubscribed
<1>8. ASSUME NEW t, NEW K, Announced(flight, UsedNow(t), t, K)
      PROVE  Announced(flight', UsedBy(agent', ask', chat', t), t, K)
  <2>1. PICK V : V = UsedNow(t)
    OBVIOUS
  <2>2. PICK g : g = flight'
    OBVIOUS
  <2>3. \A k \in Nat : ~UseOf(m, t, k)
    BY <1>2 DEF UseOf
  <2>4. AddedTo(g, flight, m) /\ Announced(flight, V, t, K)
    BY <1>3, <1>8, <2>1, <2>2
  <2>5. Announced(g, V, t, K)
    BY <2>3, <2>4, AnnouncedAdds
  <2> QED BY <1>3, <2>1, <2>2, <2>5 DEF UsedNow
<1>9. StartsOnTheWay'
  BY <1>2, <1>5, <1>8 DEF TextInv, StartsOnTheWay, UsedNow
<1>10. CardsKnown'
  BY <1>3, <1>8 DEF TextInv, CardsKnown, OwnTurn, UsedNow
<1>11. AnswerKnown'
  <2>1. Confirming' => Confirming
    BY <1>2, <1>5, <1>6 DEF Confirming
  <2>2. Permission' = Permission
    BY <1>3 DEF Permission
  <2> QED BY <1>2, <1>3, <1>5, <2>1, <2>2 DEF TextInv, AnswerKnown, OwnTurn, StartsTurn
<1>12. RowsKnown'
  <2>1. ASSUME NEW t, NotToStart(uplink, flight, t) PROVE NotToStart(uplink', flight', t)
    BY <1>2, <1>5, <1>6, <2>1 DEF NotToStart, StartsTurn
  <2> QED BY <1>3, <2>1 DEF TextInv, RowsKnown, OwnTurn
<1> QED BY <1>7, <1>9, <1>10, <1>11, <1>12 DEF TextInv

-----------------------------------------------------------------------------
\* A row made from a part of turn t.
LEMMA RowOfPart ==
  ASSUME NEW t \in TurnT, NEW p \in PartT, RowsOfPart(t, p) # << >>, NEW r, r = RowsOfPart(t, p)[1]
  PROVE  /\ r.kind = "agent" => r.turn = t.id
         /\ r.kind = "approval" => p.status = "pending-confirmation" /\ p.kind = "tool"
<1>1. CASE p.kind = "tool"
  <2>1. RowsOfPart(t, p) = CardsOfPart(p)
    BY <1>1 DEF RowsOfPart
  <2>2. CASE p.status = "pending-confirmation"
    <3>0. \E d, s : RowsOfPart(t, p) = <<Card("approval", p.tool, "pending", d, s)>>
      BY <2>1, <2>2 DEF CardsOfPart
    <3>2. PICK d, s : r = Card("approval", p.tool, "pending", d, s)
      BY <3>0
    <3>1. r.kind # "agent"
      BY <3>2 DEF Card, Row
    <3> QED BY <1>1, <2>2, <3>1
  <2>3. CASE p.status # "pending-confirmation"
    <3>1. r.kind = "tool"
      BY <2>1, <2>3 DEF CardsOfPart, Card, Row
    <3> QED BY <3>1
  <2> QED BY <2>2, <2>3
<1>2. CASE p.kind # "tool"
  <2>1. r = [Row("agent", t.id, 0, 0) EXCEPT !.text = p.text]
    BY <1>2 DEF RowsOfPart
  <2> QED BY <2>1, RowFacts
<1> QED BY <1>1, <1>2

\* What the text and the requests of a snapshot are of.
LEMMA SnapshotRows ==
  ASSUME NEW c \in ChatT, NEW m, NEW n, NEW q, ChatGood(c, m, n, Permission, q)
  PROVE  /\ \A t \in Texted(RowsOf(ShownTurns(c))) : t \in Ids(c)
         /\ Approved(RowsOf(ShownTurns(c))) => q \in Ids(c)
<1>1. PICK ts \in Seq(TurnT) : ts = ShownTurns(c)
  BY ShownAre
<1>2. PICK rows \in Seq(RowT) : rows = RowsOf(ts)
  BY RowsOfType
<1>3. PICK l \in Nat : l = Len(rows) /\ DOMAIN rows = 1..l
  BY LenProperties
<1>4. PICK b, o : ChatPlaced(ts, rows, l, b, o)
  BY <1>2, <1>3, ChatPlaces
<1>5. ASSUME NEW i \in 1..l
      PROVE  /\ rows[i].kind = "agent" => rows[i].turn \in Ids(c)
             /\ rows[i].kind = "approval" => q \in Ids(c)
  <2>1. b[i] \in 1..Len(ts) /\ HasRow(ts[b[i]], o[i]) /\ rows[i] = RowAt(ts[b[i]], o[i])
    BY <1>4 DEF ChatPlaced, ChatOrigin
  <2>2. PICK t \in TurnT : t = ts[b[i]] /\ t \in TurnSet(c)
    <3>1. b[i] \in DOMAIN ts
      BY <2>1, LenProperties
    <3>2. ts[b[i]] \in TurnSet(c)
      BY <1>1, <3>1, ShownAre
    <3> QED BY <3>2, ChatParts
  <2>3. t.id \in Ids(c) /\ TurnGood(t, n, Permission, q)
    BY <2>2 DEF Ids, ChatGood
  <2>4. CASE o[i] = 0
    BY <2>1, <2>2, <2>4, RowFacts DEF RowAt
  <2>5. CASE o[i] # 0 /\ o[i] = Len(t.parts) + 1
    BY <2>1, <2>2, <2>5, RowFacts DEF RowAt
  <2>6. CASE o[i] # 0 /\ o[i] # Len(t.parts) + 1
    <3>1. o[i] \in 1..Len(t.parts) /\ RowsOfPart(t, t.parts[o[i]]) # << >>
      BY <2>1, <2>2, <2>6 DEF HasRow
    <3>2. PICK p \in PartT : p = t.parts[o[i]] /\ o[i] \in DOMAIN t.parts
      BY <3>1, PartsOf
    <3>3. rows[i] = RowsOfPart(t, p)[1]
      BY <2>1, <2>2, <2>6, <3>2 DEF RowAt
    <3>4. p.status = "pending-confirmation" /\ p.kind = "tool" => t.id = q
      BY <2>3, <3>2 DEF TurnGood, PartGood
    <3> QED BY <2>3, <3>1, <3>2, <3>3, <3>4, RowOfPart
  <2> QED BY <2>4, <2>5, <2>6
<1> QED BY <1>1, <1>2, <1>3, <1>5 DEF Texted, Approved

\* What arrives, and what stays on the way.
LEMMA ReceiveFacts ==
  ASSUME HostInv, NEW i \in DOMAIN flight, Arrived(i)
  PROVE  \E m \in EntryT :
           /\ m = flight[i] /\ view' = Projected(view, m) /\ view \in ViewT
           /\ Without(flight', flight, i)
           /\ WasGood(m, count.turn, count.tool, Permission, ask.turn)
           /\ chat' = chat /\ count' = count /\ agent' = agent /\ ask' = ask
           /\ uplink' = uplink /\ subscribed' = subscribed
           /\ count.turn \in Nat /\ Permission' = Permission
           /\ \A k \in DOMAIN flight' : \E x \in DOMAIN flight :
                /\ flight'[k].msg = flight[x].msg /\ flight'[k].was = flight[x].was
                /\ flight[x].late => flight'[k].late
                /\ ~flight'[k].late => i < x
<1>1. TypesRight /\ HostGood /\ count.turn \in Nat
  BY HostFacts
<1>2. PICK m \in EntryT : m = flight[i]
  BY <1>1, FlightEntries
<1>3. Without(flight', flight, i)
  BY <1>1, ArrivedWithout
<1>4. WasGood(m, count.turn, count.tool, Permission, ask.turn)
  BY <1>1, <1>2 DEF HostGood
<1>5. Permission' = Permission
  BY DEF Arrived, Permission
<1>6. ASSUME NEW k \in DOMAIN flight'
      PROVE  \E x \in DOMAIN flight :
                /\ flight'[k].msg = flight[x].msg /\ flight'[k].was = flight[x].was
                /\ flight[x].late => flight'[k].late
                /\ ~flight'[k].late => i < x
  <2>1. PICK n \in Nat :
           /\ DOMAIN flight = 1..n+1 /\ DOMAIN flight' = 1..n /\ i \in 1..n+1
           /\ \A j \in 1..n : \/ /\ j < i /\ flight'[j].late
                                 /\ flight'[j].msg = flight[j].msg /\ flight'[j].was = flight[j].was
                                 /\ flight'[j].odd = flight[j].odd
                              \/ j >= i /\ flight'[j] = flight[j + 1]
    BY <1>3 DEF Without
  <2>2. k \in 1..n /\ k \in 1..n+1 /\ k + 1 \in 1..n+1
    BY <2>1
  <2>3. CASE k >= i /\ flight'[k] = flight[k + 1]
    BY <2>1, <2>2, <2>3
  <2>4. CASE k < i /\ flight'[k].late /\ flight'[k].msg = flight[k].msg /\ flight'[k].was = flight[k].was
    BY <2>1, <2>2, <2>4
  <2> QED BY <2>1, <2>2, <2>3, <2>4
<1> QED BY <1>1, <1>2, <1>3, <1>4, <1>5, <1>6 DEF Arrived, TypesRight, WindowT

-----------------------------------------------------------------------------
\* When a message arrives, the parts of TextInv stay: the subscription ...
LEMMA ReceiveSubscribing ==
  ASSUME HostInv, Subscribing, NEW i \in DOMAIN flight, Arrived(i)
  PROVE  Subscribing' /\ Unsubscribed' /\ subscribed
<1>1. subscribed
  <2>1. DOMAIN << >> = {}
    OBVIOUS
  <2> QED BY <2>1 DEF Subscribing
<1>2. subscribed' /\ uplink' = uplink
  BY <1>1 DEF Arrived
<1> QED BY <1>1, <1>2 DEF Subscribing, Unsubscribed

\* Nothing on the way before the start of a turn is about that turn.
LEMMA BeforeStart ==
  ASSUME HostInv, NEW x \in DOMAIN flight, NEW t, StartsTurn(flight[x], t), NEW i \in DOMAIN flight, i < x
  PROVE  flight[i].msg.turn # t /\ t \notin Ids(flight[i].was)
<1>1. i \in 1..x - 1
  <2>1. DOMAIN flight = 1..Len(flight) /\ Len(flight) \in Nat
    BY FlightEntries DEF HostInv
  <2> QED BY <2>1
<1> QED BY <1>1 DEF HostInv, StartsFresh, StartsTurn

\* A turn's calls stay announced when a message arrives that starts none of them.
LEMMA ReceiveAnnounced ==
  ASSUME HostInv, NEW i \in DOMAIN flight, Arrived(i), NEW t, NEW K, NEW L,
         Announced(flight, UsedNow(t), t, K), K \subseteq L,
         \A k \in Nat : StartOf(flight[i], t, k) => k \in L
  PROVE  Announced(flight', UsedBy(agent', ask', chat', t), t, L)
<1>1. PICK U : U = UsedNow(t)
  OBVIOUS
<1>2. U \subseteq Nat
  BY <1>1 DEF UsedNow, UsedBy
<1>3. PICK g : g = flight'
  OBVIOUS
<1>4. Without(g, flight, i)
  BY <1>3, ReceiveFacts
<1>5. Announced(g, U, t, L)
  BY <1>1, <1>2, <1>4, AnnouncedShorter
<1> QED BY <1>1, <1>3, <1>5, ReceiveFacts DEF UsedNow

\* ... the starts that are still on the way ...
LEMMA ReceiveStarts ==
  ASSUME HostInv, StartsOnTheWay, NEW i \in DOMAIN flight, Arrived(i)
  PROVE  StartsOnTheWay'
<1>1. ASSUME NEW j \in DOMAIN flight', flight'[j].msg.type = "turnStarted", ~flight'[j].late,
             NEW t, t = flight'[j].msg.turn
      PROVE  Announced(flight', UsedBy(agent', ask', chat', t), t, {})
  <2>1. PICK x \in DOMAIN flight : /\ flight'[j].msg = flight[x].msg /\ i < x
                                   /\ flight[x].late => flight'[j].late
    BY <1>1, ReceiveFacts
  <2>2. Announced(flight, UsedNow(t), t, {})
    BY <1>1, <2>1 DEF StartsOnTheWay
  <2>3. flight[i].msg.turn # t
    BY <1>1, <2>1, BeforeStart DEF StartsTurn
  <2>4. \A k \in Nat : ~StartOf(flight[i], t, k)
    BY <2>3 DEF StartOf
  <2>5. PICK L : L = {}
    OBVIOUS
  <2>6. Announced(flight', UsedBy(agent', ask', chat', t), t, L)
    BY <2>2, <2>4, <2>5, ReceiveAnnounced
  <2> QED BY <2>5, <2>6
<1> QED BY <1>1 DEF StartsOnTheWay, UsedNow

\* The turn and the segment of the window after a message that is no snapshot.
LEMMA ReceivedTurn ==
  ASSUME NEW v \in ViewT, NEW m \in EntryT, m.msg.type # "snapshot", NEW w, w = Projected(v, m)
  PROVE  /\ m.msg.type = "turnStarted" => w.proj = m.msg.turn
         /\ m.msg.type \in EndTypes => w.proj = 0 /\ w.rows = v.rows
         /\ m.msg.type \notin EndTypes \cup {"turnStarted"} =>
               /\ w.proj = v.proj
               /\ w.segment = IF m.msg.type = "toolCallStart" THEN v.segment + 1 ELSE v.segment
<1>1. PICK a : a = m.msg
  OBVIOUS
<1>2. CASE a.type = "turnStarted" /\ StartShown(w, v, a)
  BY <1>1, <1>2 DEF StartShown, EndTypes
<1>3. CASE a.type \in TextTypes /\ TextShown(w, v, a)
  BY <1>1, <1>3 DEF TextShown, EndTypes, TextTypes
<1>4. CASE a.type \in EndTypes /\ EndShown(w, v)
  BY <1>1, <1>4 DEF EndShown, EndTypes
<1>5. CASE a.type = "error" /\ ErrorShown(w, v)
  BY <1>1, <1>5 DEF ErrorShown, EndTypes
<1>6. CASE a.type \in ToolTypes /\ ToolShown(w, v, a)
  BY <1>1, <1>6 DEF ToolShown, EndTypes, ToolTypes
<1> QED BY <1>1, <1>2, <1>3, <1>4, <1>5, <1>6, ProjectedIs

\* The window saw the message in order and in its turn.
LEMMA ReceivedClear ==
  ASSUME HostInv, NEW i \in DOMAIN flight, Arrived(i), ~blurred', OwnTurn', NEW m, m = flight[i]
  PROVE  /\ m.msg.type # "snapshot" /\ ~blurred /\ ~m.late /\ restored' = restored
         /\ m.msg.type \notin EndTypes
         /\ m.msg.type = "turnStarted" => ~m.odd /\ view'.proj = m.msg.turn
         /\ m.msg.type # "turnStarted" => /\ ~m.odd /\ m.msg.turn = view.proj /\ view'.proj = view.proj
                                          /\ OwnTurn
<1>1. m \in EntryT /\ view \in ViewT /\ view' = Projected(view, m)
  BY ReceiveFacts
<1>2. m.msg.type # "snapshot"
  <2>1. SUFFICES ASSUME m.msg.type = "snapshot" PROVE FALSE
    OBVIOUS
  <2>2. restored' = m.was.active.id
    BY <2>1 DEF Arrived
  <2>3. m.was \in ChatT
    BY <1>1 DEF EntryT
  <2>4. view'.proj = m.was.active.id
    BY <1>1, <2>1, <2>3, SnapshotIs DEF Projected
  <2> QED BY <2>2, <2>4 DEF OwnTurn
<1>3. restored' = restored /\ ~blurred /\ ~m.late /\ ~Foreign(m)
  BY <1>2 DEF Arrived
<1>4. m.msg.type \notin EndTypes
  <2>1. view'.proj # 0
    BY DEF OwnTurn
  <2> QED BY <1>1, <1>2, <2>1, ReceivedTurn
<1>5. CASE m.msg.type = "turnStarted"
  BY <1>1, <1>2, <1>3, <1>4, <1>5, ReceivedTurn DEF Foreign
<1>6. CASE m.msg.type # "turnStarted"
  <2>1. view'.proj = view.proj
    BY <1>1, <1>2, <1>4, <1>6, ReceivedTurn
  <2>2. ~m.odd /\ m.msg.turn = view.proj
    BY <1>3, <1>4, <1>6 DEF Foreign, EndTypes
  <2>3. OwnTurn
    BY <1>3, <2>1 DEF OwnTurn
  <2> QED BY <1>2, <1>3, <1>4, <1>6, <2>1, <2>2, <2>3
<1> QED BY <1>5, <1>6

\* ... the cards ...
LEMMA ReceiveCards ==
  ASSUME HostInv, StartsOnTheWay, CardsKnown, NEW i \in DOMAIN flight, Arrived(i)
  PROVE  CardsKnown'
<1> SUFFICES ASSUME ~blurred', OwnTurn'
             PROVE  Announced(flight', UsedBy(agent', ask', chat', view'.proj), view'.proj, Calls(view'.rows))
  BY DEF CardsKnown, UsedNow
<1>1. PICK m \in EntryT : m = flight[i] /\ view' = Projected(view, m) /\ view \in ViewT
  BY ReceiveFacts
<1>2. /\ m.msg.type # "snapshot" /\ ~blurred /\ ~m.late
      /\ m.msg.type \notin EndTypes
      /\ m.msg.type = "turnStarted" => ~m.odd /\ view'.proj = m.msg.turn
      /\ m.msg.type # "turnStarted" => m.msg.turn = view.proj /\ view'.proj = view.proj /\ OwnTurn
  BY <1>1, ReceivedClear
<1>3. PICK x \in RowT :
           /\ Touched(view'.rows, view.rows, x)
           /\ IsCard(x) <=> m.msg.type \in ToolTypes
           /\ IsCard(x) => x.tool = m.msg.tool
  BY <1>1, <1>2, MessageTouched
<1>4. PICK t, L : t = view'.proj /\ L = Calls(view'.rows)
  OBVIOUS
<1>5. \A k : k \in L <=> k \in Calls(view.rows) \/ (IsCard(x) /\ k = x.tool)
  BY <1>3, <1>4, TouchedSets
<1>6. \A k \in Nat : StartOf(m, t, k) => k \in L
  BY <1>3, <1>5 DEF StartOf, ToolTypes
<1>7. \E K : Announced(flight, UsedNow(t), t, K) /\ K \subseteq L
  <2>1. CASE m.msg.type = "turnStarted"
    <3>1. Announced(flight, UsedNow(t), t, {})
      BY <1>1, <1>2, <1>4, <2>1 DEF StartsOnTheWay
    <3> QED BY <3>1
  <2>2. CASE m.msg.type # "turnStarted"
    <3>1. Announced(flight, UsedNow(t), t, Calls(view.rows))
      BY <1>2, <1>4, <2>2 DEF CardsKnown
    <3> QED BY <1>5, <3>1
  <2> QED BY <2>1, <2>2
<1>8. PICK K : Announced(flight, UsedNow(t), t, K) /\ K \subseteq L
  BY <1>7
<1>9. Announced(flight', UsedBy(agent', ask', chat', t), t, L)
  BY <1>1, <1>6, <1>8, ReceiveAnnounced
<1> QED BY <1>4, <1>9

-----------------------------------------------------------------------------
\* ... the answer ...
LEMMA ReceiveAnswer ==
  ASSUME HostInv, AnswerKnown, NEW i \in DOMAIN flight, Arrived(i)
  PROVE  AnswerKnown'
<1>1. PICK m \in EntryT :
        /\ m = flight[i] /\ view' = Projected(view, m) /\ view \in ViewT
        /\ WasGood(m, count.turn, count.tool, Permission, ask.turn)
        /\ ask' = ask /\ uplink' = uplink /\ Permission' = Permission
  BY ReceiveFacts
<1>2. \A k \in DOMAIN flight' : \E x \in DOMAIN flight :
                /\ flight'[k].msg = flight[x].msg
                /\ flight[x].late => flight'[k].late
                /\ ~flight'[k].late => i < x
  BY ReceiveFacts
<1>3. Confirming' => Confirming
  BY <1>1, <1>2 DEF Confirming
<1>4. m.was \in ChatT
  BY DEF EntryT
<1>5. ASSUME Approved(view'.rows), ~Approved(view.rows)
      PROVE  Confirming \/ m.msg.turn = ask.turn \/ ask.turn \in Ids(m.was)
  <2>1. CASE m.msg.type = "snapshot"
    <3>1. view'.rows = RowsOf(ShownTurns(m.was))
      BY <1>1, <1>4, <2>1, SnapshotIs DEF Projected
    <3> QED BY <1>1, <1>4, <1>5, <3>1, SnapshotRows DEF WasGood
  <2>2. CASE m.msg.type \in EndTypes
    <3>1. m.msg.type # "snapshot"
      BY <2>2 DEF EndTypes
    <3> QED BY <1>1, <1>5, <2>2, <3>1, ReceivedTurn
  <2>3. CASE m.msg.type # "snapshot" /\ m.msg.type \notin EndTypes
    <3>1. PICK x \in RowT : Touched(view'.rows, view.rows, x)
                            /\ (x.kind = "approval" => Asks(m.msg, Permission))
      BY <1>1, <2>3, MessageTouched
    <3>2. Asks(m.msg, Permission)
      BY <1>5, <3>1, TouchedSets
    <3>3. CASE m.msg.type = "toolCallConfirmed"
      BY <1>1, <3>3 DEF Confirming
    <3>4. CASE m.msg.type = "toolCallReady" /\ m.msg.tool = Permission
      BY <1>1, <3>4 DEF WasGood, MessageGood, SentBy
    <3> QED BY <3>2, <3>3, <3>4 DEF Asks
  <2> QED BY <2>1, <2>2, <2>3
<1>6. ASSUME Confirming' \/ Approved(view'.rows), NEW j \in DOMAIN flight', StartsTurn(flight'[j], ask.turn)
      PROVE  flight'[j].late
  <2>1. PICK x \in DOMAIN flight : /\ flight'[j].msg = flight[x].msg
                                   /\ flight[x].late => flight'[j].late
                                   /\ ~flight'[j].late => i < x
    BY <1>2
  <2>2. StartsTurn(flight[x], ask.turn)
    BY <1>6, <2>1 DEF StartsTurn
  <2>3. CASE Confirming \/ Approved(view.rows)
    BY <2>1, <2>2, <2>3 DEF AnswerKnown
  <2>4. CASE ~(Confirming \/ Approved(view.rows))
    <3>1. m.msg.turn = ask.turn \/ ask.turn \in Ids(m.was)
      BY <1>3, <1>5, <1>6, <2>4
    <3> QED BY <1>1, <2>1, <2>2, <3>1, BeforeStart
  <2> QED BY <2>3, <2>4
<1>7. ASSUME Confirming', ~blurred', OwnTurn', view'.proj = ask.turn
      PROVE  Permission \in Calls(view'.rows)
  <2>1. /\ m.msg.type # "snapshot" /\ ~blurred /\ ~m.late
        /\ m.msg.type \notin EndTypes
        /\ m.msg.type = "turnStarted" => view'.proj = m.msg.turn
        /\ m.msg.type # "turnStarted" => m.msg.turn = view.proj /\ view'.proj = view.proj /\ OwnTurn
    BY <1>1, <1>7, ReceivedClear
  <2>2. CASE m.msg.type = "turnStarted"
    <3>1. StartsTurn(flight[i], ask.turn)
      BY <1>1, <1>7, <2>1, <2>2 DEF StartsTurn
    <3> QED BY <1>1, <1>3, <1>7, <2>1, <3>1 DEF AnswerKnown
  <2>3. CASE m.msg.type # "turnStarted"
    <3>1. Permission \in Calls(view.rows)
      BY <1>3, <1>7, <2>1, <2>3 DEF AnswerKnown
    <3>2. \E x \in RowT : Touched(view'.rows, view.rows, x)
      BY <1>1, <2>1, MessageTouched
    <3> QED BY <3>1, <3>2, TouchedSets
  <2> QED BY <2>2, <2>3
<1> QED BY <1>1, <1>6, <1>7 DEF AnswerKnown

\* A call the window is told of has its card: its start came before, from the same goroutine.
LEMMA CardThere ==
  ASSUME HostInv, CardsKnown, AnswerKnown, NEW i \in DOMAIN flight, Arrived(i), NEW m, m = flight[i],
         ~blurred, OwnTurn, ~m.odd, m.msg.turn = view.proj, m.msg.type \in ToolTypes \ {"toolCallStart"}
  PROVE  m.msg.tool \in Calls(view.rows)
<1>1. WasGood(m, count.turn, count.tool, Permission, ask.turn)
  BY ReceiveFacts
<1>2. SentBy(m, Permission, ask.turn) /\ Says(m.msg, count.turn, count.tool, Permission)
  BY <1>1 DEF WasGood, MessageGood
<1>3. CASE m.msg.type = "toolCallConfirmed"
  <2>1. Confirming
    BY <1>3 DEF Confirming
  <2>2. m.msg.tool = Permission /\ m.msg.turn = ask.turn
    BY <1>2, <1>3 DEF SentBy
  <2> QED BY <2>1, <2>2 DEF AnswerKnown
<1>4. CASE m.msg.type \in {"toolCallReady", "toolCallComplete"}
  <2>1. PICK k \in Nat : k = m.msg.tool
    <3>1. m.msg.tool \in 1..count.tool
      BY <1>2, <1>4 DEF Says, Settles
    <3> QED BY <3>1
  <2>2. UseOf(flight[i], view.proj, k)
    BY <1>4, <2>1 DEF UseOf
  <2>3. k \in Calls(view.rows) \/ \E x \in 1..i - 1 : StartOf(flight[x], view.proj, k)
    BY <2>2 DEF CardsKnown, Announced
  <2>4. ASSUME NEW x \in 1..i - 1, StartOf(flight[x], view.proj, k) PROVE FALSE
    <3>1. x \in DOMAIN flight
      <4>1. DOMAIN flight = 1..Len(flight) /\ Len(flight) \in Nat
        BY FlightEntries DEF HostInv
      <4> QED BY <4>1
    <3>2. SentBy(flight[x], Permission, ask.turn) /\ flight[x] \in EntryT /\ m \in EntryT
      BY <3>1, FlightEntries DEF HostInv, HostGood, WasGood, MessageGood
    <3>3. flight[x].msg.type = "toolCallStart" /\ flight[x].msg.tool = k
      BY <2>4 DEF StartOf
    <3>4. flight[x].from = IF k = Permission THEN "ask" ELSE "agent"
      BY <3>2, <3>3 DEF SentBy, EntryT
    <3>5. m.from = IF k = Permission THEN "ask" ELSE "agent"
      BY <1>2, <1>4, <2>1, <3>2 DEF SentBy, EntryT
    <3>6. flight[x].from # flight[i].from
      BY DEF Arrived
    <3> QED BY <3>4, <3>5, <3>6
  <2> QED BY <2>1, <2>3, <2>4
<1> QED BY <1>3, <1>4 DEF ToolTypes

\* ... and the rows: text is put in the last segment, a call ends that segment.
LEMMA ReceiveRows ==
  ASSUME HostInv, CardsKnown, AnswerKnown, RowsKnown, NEW i \in DOMAIN flight, Arrived(i)
  PROVE  RowsKnown'
<1>1. PICK m \in EntryT :
        /\ m = flight[i] /\ view' = Projected(view, m) /\ view \in ViewT
        /\ WasGood(m, count.turn, count.tool, Permission, ask.turn)
        /\ count' = count /\ uplink' = uplink /\ count.turn \in Nat
  BY ReceiveFacts
<1>2. \A k \in DOMAIN flight' : \E x \in DOMAIN flight :
                /\ flight'[k].msg = flight[x].msg
                /\ flight[x].late => flight'[k].late
                /\ ~flight'[k].late => i < x
  BY ReceiveFacts
<1>3. m.was \in ChatT /\ ChatGood(m.was, count.turn, count.tool, Permission, ask.turn)
  BY <1>1 DEF EntryT, WasGood
<1>4. ASSUME m.msg.type = "snapshot", NEW t \in Texted(view'.rows)
      PROVE  t \in 0..count.turn /\ NotToStart(uplink', flight', t)
  <2>1. view'.rows = RowsOf(ShownTurns(m.was))
    BY <1>1, <1>3, <1>4, SnapshotIs DEF Projected
  <2>2. t \in Ids(m.was)
    BY <1>3, <1>4, <2>1, SnapshotRows
  <2>3. t \in 1..count.turn
    BY <1>3, <2>2 DEF ChatGood, Ids
  <2>4. \A k \in DOMAIN uplink : uplink[k].type = "turnStarted" => uplink[k].turn # t
    BY <1>1, <2>2 DEF HostInv, OwnFresh, Unused
  <2>5. ASSUME NEW k \in DOMAIN flight', StartsTurn(flight'[k], t), ~flight'[k].late PROVE FALSE
    <3>1. PICK x \in DOMAIN flight : flight'[k].msg = flight[x].msg /\ i < x
      BY <1>2, <2>5
    <3>2. StartsTurn(flight[x], t)
      BY <2>5, <3>1 DEF StartsTurn
    <3> QED BY <1>1, <2>2, <3>1, <3>2, BeforeStart
  <2> QED BY <1>1, <2>3, <2>4, <2>5 DEF NotToStart
<1>5. ASSUME NEW t, NotToStart(uplink, flight, t)
      PROVE  NotToStart(uplink', flight', t)
  BY <1>1, <1>2, <1>5 DEF NotToStart, StartsTurn
<1>6. ASSUME m.msg.type # "snapshot", NEW t \in Texted(view'.rows)
      PROVE  /\ t \in 0..count.turn
             /\ ~blurred' => NotToStart(uplink', flight', t)
  <2>1. ~blurred' => ~blurred /\ ~m.late /\ ~Foreign(m)
    BY <1>1, <1>6 DEF Arrived
  <2>2. t \in Texted(view.rows) \/ (m.msg.type \in TextTypes /\ t = view.proj)
    <3>1. CASE m.msg.type \in EndTypes
      BY <1>1, <1>6, <3>1, ReceivedTurn
    <3>2. CASE m.msg.type \notin EndTypes
      <4>1. PICK x \in RowT : /\ Touched(view'.rows, view.rows, x)
                              /\ x.kind = "agent" <=> m.msg.type \in TextTypes
                              /\ x.kind = "agent" => x.turn = view.proj
        BY <1>1, <1>6, <3>2, MessageTouched
      <4> QED BY <1>6, <4>1, TouchedSets
    <3> QED BY <3>1, <3>2
  <2>3. CASE t \in Texted(view.rows)
    BY <1>5, <2>1, <2>3 DEF RowsKnown
  <2>4. CASE m.msg.type \in TextTypes /\ t = view.proj
    <3>1. t \in 0..count.turn
      BY <2>4 DEF HostInv, ViewNames
    <3>2. ASSUME ~blurred' PROVE NotToStart(uplink', flight', t)
      <4>1. m.msg.turn = t
        BY <2>1, <2>4, <3>2 DEF Foreign, TextTypes
      <4>2. \A k \in DOMAIN uplink : uplink[k].type = "turnStarted" => uplink[k].turn # t
        BY <1>1, <4>1 DEF HostInv, OwnFresh, Unused
      <4>3. ASSUME NEW k \in DOMAIN flight', StartsTurn(flight'[k], t), ~flight'[k].late PROVE FALSE
        <5>1. PICK x \in DOMAIN flight : flight'[k].msg = flight[x].msg /\ i < x
          BY <1>2, <4>3
        <5>2. StartsTurn(flight[x], t)
          BY <4>3, <5>1 DEF StartsTurn
        <5> QED BY <1>1, <4>1, <5>1, <5>2, BeforeStart
      <4> QED BY <1>1, <4>2, <4>3 DEF NotToStart
    <3> QED BY <3>1, <3>2
  <2> QED BY <2>2, <2>3, <2>4
<1>7. ASSUME ~blurred', OwnTurn'
      PROVE  Above(view'.rows, view'.proj, view'.segment)
  <2>1. /\ m.msg.type # "snapshot" /\ ~blurred /\ ~m.late /\ ~m.odd
        /\ m.msg.type \notin EndTypes
        /\ m.msg.type = "turnStarted" => view'.proj = m.msg.turn
        /\ m.msg.type # "turnStarted" => m.msg.turn = view.proj /\ view'.proj = view.proj /\ OwnTurn
    BY <1>1, <1>7, ReceivedClear
  <2>2. PICK x \in RowT :
           /\ Touched(view'.rows, view.rows, x)
           /\ IsCard(x) <=> m.msg.type \in ToolTypes
           /\ IsCard(x) => x.tool = m.msg.tool
           /\ x.kind = "agent" <=> m.msg.type \in TextTypes
           /\ x.kind = "agent" => x.turn = view.proj /\ (view.proj # 0 => x.segment = view.segment)
    BY <1>1, <2>1, MessageTouched
  <2>3. CASE m.msg.type = "turnStarted"
    <3>1. PICK t : t = m.msg.turn /\ view'.proj = t
      BY <2>1, <2>3
    <3>2. t \notin Texted(view.rows)
      <4>1. StartsTurn(flight[i], t)
        BY <1>1, <2>3, <3>1 DEF StartsTurn
      <4> QED BY <1>1, <2>1, <4>1 DEF RowsKnown, NotToStart
    <3>3. t \notin Texted(view'.rows)
      BY <2>2, <2>3, <3>2, TouchedSets DEF TextTypes
    <3> QED BY <3>1, <3>3 DEF Above, Texted
  <2>4. CASE m.msg.type # "turnStarted"
    <3>1. PICK g \in Nat, h \in Nat : /\ g = view.segment /\ h = view'.segment
                                      /\ h = IF m.msg.type = "toolCallStart" THEN g + 1 ELSE g
      <4>1. view'.segment = IF m.msg.type = "toolCallStart" THEN view.segment + 1 ELSE view.segment
        BY <1>1, <2>1, <2>4, ReceivedTurn
      <4>2. PICK g \in Nat : g = view.segment
        BY <1>1 DEF ViewT
      <4>3. view'.segment \in Nat
        BY <4>1, <4>2
      <4> QED BY <4>1, <4>2, <4>3
    <3>2. Above(view.rows, view.proj, g) /\ view.proj # 0 /\ view'.proj = view.proj
      BY <2>1, <2>4, <3>1 DEF RowsKnown, OwnTurn
    <3>3. view.rows \in Seq(RowT) /\ x.segment \in Nat /\ g <= h
      BY <1>1, <3>1 DEF ViewT, RowT
    <3>4. x.kind = "agent" /\ x.turn = view.proj => x.segment <= h
      BY <2>2, <3>1, <3>2, <3>3
    <3>5. IsCard(x) => x.tool \in Calls(view.rows) \/ g < h
      <4>1. CASE m.msg.type = "toolCallStart"
        BY <3>1, <4>1
      <4>2. CASE m.msg.type \in ToolTypes \ {"toolCallStart"}
        <5>1. m.msg.tool \in Calls(view.rows)
          BY <1>1, <2>1, <2>4, <4>2, CardThere
        <5> QED BY <2>2, <5>1
      <4> QED BY <2>2, <4>1, <4>2
    <3>6. Above(view'.rows, view.proj, h)
      BY <2>2, <3>1, <3>2, <3>3, <3>4, <3>5, TouchedAbove
    <3> QED BY <3>1, <3>2, <3>6
  <2> QED BY <2>3, <2>4
<1>8. ASSUME NEW t \in Texted(view'.rows)
      PROVE  t \in 0..count'.turn /\ (~blurred' => NotToStart(uplink', flight', t))
  BY <1>1, <1>4, <1>6
<1> QED BY <1>7, <1>8 DEF RowsKnown

-----------------------------------------------------------------------------
\* TextInv through a step that applies an action ...
LEMMA EmitText ==
  ASSUME HostInv, TextInv, NEW e, NEW a, EmitStep(e, a)
  PROVE  TextInv'
<1>1. Subscribing /\ Unsubscribed /\ StartsOnTheWay /\ CardsKnown /\ AnswerKnown /\ RowsKnown
  BY DEF TextInv
<1>2. Subscribing'
  BY <1>1, EmitTaken
<1> QED BY <1>1, <1>2, EmitUnsubscribed, EmitStarts, EmitCards, EmitAnswer, EmitRows DEF TextInv

\* ... through one that receives a message ...
LEMMA ReceiveText ==
  ASSUME HostInv, TextInv, NEW i \in DOMAIN flight, Arrived(i)
  PROVE  TextInv'
<1>1. Subscribing /\ Unsubscribed /\ StartsOnTheWay /\ CardsKnown /\ AnswerKnown /\ RowsKnown
  BY DEF TextInv
<1> QED BY <1>1, ReceiveSubscribing, ReceiveStarts, ReceiveCards, ReceiveAnswer, ReceiveRows DEF TextInv

\* Nothing changes.
LEMMA StillText ==
  ASSUME HostInv, TextInv, UNCHANGED varsChat
  PROVE  TextInv'
<1>1. UNCHANGED <<chat, count, agent, ask, subscribed, flight, uplink, link, view, blurred, restored>>
  BY DEF varsChat, hostVars, sdkVars, netVars, clientVars
<1>2. Subscribing' /\ Unsubscribed'
  BY <1>1 DEF TextInv, Subscribing, Unsubscribed
<1>3. StartsOnTheWay' /\ CardsKnown' /\ AnswerKnown' /\ RowsKnown'
  BY <1>1, IdleText DEF TextInv, UplinkPlain
<1> QED BY <1>2, <1>3 DEF TextInv

\* ... and so through every step ...
LEMMA NextText ==
  ASSUME HostInv, ScreenInv, TextInv, [NextChat]_varsChat
  PROVE  TextInv'
<1>1. CASE \/ AgentText \/ AgentStartsTool \/ AgentToolReady \/ AgentToolComplete \/ AgentEnds
           \/ AskEmits \/ HostStartsTurn \/ OtherStartsTurn \/ HostCancelsTurn
  BY <1>1, EmittingSteps, EmitText
<1>2. CASE ResolvePermission
  BY <1>2, ResolveStep, EmitText, ResolveText
<1>3. CASE AskRegisters
  BY <1>3, RegisterText
<1>4. CASE HostSubscribes
  BY <1>4, SubscribeText
<1>5. CASE Connect
  BY <1>5, ConnectText
<1>6. CASE OpenSession
  BY <1>6, OpenText
<1>7. CASE Prompt
  BY <1>7, PromptText
<1>8. CASE Cancel \/ Answer
  BY <1>8, AnswerText DEF ScreenInv
<1>9. CASE Drop
  BY <1>9, DropText
<1>10. CASE \E i \in DOMAIN flight : Receive(i)
  BY <1>10, ReceiveIs, ReceiveText
<1>11. CASE UNCHANGED varsChat
  BY <1>11, StillText
<1> QED BY <1>1, <1>2, <1>3, <1>4, <1>5, <1>6, <1>7, <1>8, <1>9, <1>10, <1>11 DEF NextChat

\* ... from the beginning.
LEMMA InitText == InitChat => TextInv
<1> SUFFICES ASSUME InitChat PROVE TextInv
  OBVIOUS
<1>1. /\ flight = << >> /\ uplink = << >> /\ ~link.known /\ view.proj = 0 /\ view.rows = << >>
  BY DEF InitChat
<1>2. DOMAIN flight = {} /\ DOMAIN uplink = {} /\ DOMAIN view.rows = {}
  BY <1>1
<1>3. Subscribing /\ Unsubscribed
  BY <1>1, <1>2 DEF Subscribing, Unsubscribed
<1>4. StartsOnTheWay /\ CardsKnown /\ AnswerKnown /\ RowsKnown
  BY <1>1, <1>2 DEF StartsOnTheWay, CardsKnown, AnswerKnown, RowsKnown, Confirming, Approved, Texted, OwnTurn
<1> QED BY <1>3, <1>4 DEF TextInv

\* The host, the messages, the rows and the screen.
ChatInv == HostInv /\ ScreenInv /\ TextInv
\* Whatever the order in which the goroutines' messages arrive, in every state:
\* the host's chat names each turn and call once and a turn has one part of
\* text, the goroutines of the Agent SDK name turns and calls that exist, a turn
\* the window started is unknown to the host until the request arrives, a button
\* is drawn only while Host.permissions has had the request, and no message
\* about a call of a turn the window saw from its start can arrive before the
\* call has its card (emitTypedAction, AHPProjectionService).
THEOREM ChatHistory == SpecChat => []ChatInv
<1>1. InitChat => ChatInv
  BY InitHost, InitScreen, InitText DEF ChatInv
<1>2. ChatInv /\ [NextChat]_varsChat => ChatInv'
  BY NextHost, NextScreen, NextText DEF ChatInv
<1> QED BY <1>1, <1>2, PTL DEF SpecChat

\* The row of text above a card stays, when the turn is the window's own.
StaysAbove ==
  ~blurred' /\ view.proj \notin {restored, restored'} =>
        \A i \in DOMAIN view.rows : \A j \in i + 1..Len(view.rows) :
            /\ view'.proj = view.proj /\ view.proj # 0
            /\ view.rows[i].kind = "agent" /\ IsCard(view.rows[j])
            => view'.rows[i] = view.rows[i]

\* Of the rows of text a message changes at most the one of the turn's last segment.
LEMMA TextStays ==
  ASSUME NEW v \in ViewT, NEW m \in EntryT, m.msg.type # "snapshot", v.proj # 0,
         NEW i \in DOMAIN v.rows, v.rows[i].kind = "agent",
         Projected(v, m).rows[i] # v.rows[i]
  PROVE  v.rows[i].turn = v.proj /\ v.rows[i].segment = v.segment
<1>1. m.msg.type \notin EndTypes
  BY ReceivedTurn
<1>2. PICK x \in RowT :
           /\ Touched(Projected(v, m).rows, v.rows, x)
           /\ x.kind = "agent" => x.turn = v.proj /\ (v.proj # 0 => x.segment = v.segment)
  BY <1>1, MessageTouched
<1>3. Projected(v, m).rows[i] = x /\ Kin(v.rows[i], x)
  BY <1>2, TouchedRows
<1> QED BY <1>2, <1>3 DEF Kin

\* A step leaves the text above a card as it is.
LEMMA StepStays ==
  ASSUME ChatInv, [NextChat]_varsChat
  PROVE  StaysAbove
<1> SUFFICES ASSUME ~blurred', view.proj \notin {restored, restored'},
                    NEW i \in DOMAIN view.rows, NEW j \in i + 1..Len(view.rows),
                    view'.proj = view.proj, view.proj # 0,
                    view.rows[i].kind = "agent", IsCard(view.rows[j]),
                    view'.rows[i] # view.rows[i]
             PROVE  FALSE
  BY DEF StaysAbove
<1>1. /\ HostInv /\ TextInv /\ TypesRight /\ view \in ViewT /\ view.rows \in Seq(RowT)
  BY DEF ChatInv, HostInv, TypesRight, WindowT, ViewT
<1>2. ~(view' = view)
  OBVIOUS
<1>3. CASE \E k \in DOMAIN flight : Receive(k)
  <2>1. PICK k \in DOMAIN flight : Arrived(k)
    BY <1>3, ReceiveIs
  <2>2. PICK m \in EntryT : m = flight[k] /\ view' = Projected(view, m)
    BY <1>1, <2>1, ReceiveFacts
  <2>3. OwnTurn' /\ OwnTurn
    BY DEF OwnTurn
  <2>4. m.msg.type # "snapshot" /\ ~blurred
    BY <1>1, <2>1, <2>2, <2>3, ReceivedClear
  <2>5. view.rows[i].turn = view.proj /\ view.rows[i].segment = view.segment
    BY <1>1, <2>2, <2>4, TextStays
  <2>6. j \in DOMAIN view.rows /\ i < j
    <3>1. DOMAIN view.rows = 1..Len(view.rows) /\ Len(view.rows) \in Nat
      BY <1>1, LenProperties
    <3> QED BY <3>1
  <2>7. Above(view.rows, view.proj, view.segment)
    BY <1>1, <2>3, <2>4 DEF TextInv, RowsKnown
  <2> QED BY <2>5, <2>6, <2>7 DEF Above
<1>4. CASE Prompt
  <2>1. PICK t \in Nat : t = count.turn + 1
    BY <1>1, HostFacts
  <2>2. PICK a : a = Action("turnStarted", t, 0, "")
    OBVIOUS
  <2>3. a.turn = t
    BY <2>2 DEF Action
  <2>4. view' = TurnStarted(view, a)
    BY <1>4, <2>1, <2>2 DEF Prompt
  <2>5. view'.proj = t
    BY <1>1, <2>3, <2>4, StartIs DEF StartShown
  <2>6. view.proj \in 0..count.turn /\ count.turn \in Nat
    BY <1>1, HostFacts DEF HostInv, ViewNames
  <2> QED BY <2>1, <2>5, <2>6
<1>5. CASE \/ AgentText \/ AgentStartsTool \/ AgentToolReady \/ AgentToolComplete \/ AgentEnds
           \/ AskEmits \/ HostStartsTurn \/ OtherStartsTurn \/ HostCancelsTurn
  BY <1>1, <1>2, <1>5, EmittingSteps DEF EmitStep, clientVars
<1>6. CASE AskRegisters \/ HostSubscribes \/ ResolvePermission
  BY <1>2, <1>6 DEF AskRegisters, HostSubscribes, ResolvePermission, clientVars
<1>7. CASE Connect \/ OpenSession \/ Cancel \/ Answer \/ Drop
  BY <1>2, <1>7 DEF Connect, OpenSession, Cancel, Answer, Drop, Click
<1>8. CASE UNCHANGED varsChat
  BY <1>2, <1>8 DEF varsChat, clientVars
<1> QED BY <1>3, <1>4, <1>5, <1>6, <1>7, <1>8 DEF NextChat

\* Text that arrives after a tool call never changes a row above the call, in a
\* turn the window saw from its start and in order (AHPProjectionService,
\* scopedPartID and ChatSessionService.appendMessageDelta).
THEOREM TextStaysAboveCalls == SpecChat => TextAfterTools
<1>1. ChatInv /\ [NextChat]_varsChat => [StaysAbove]_varsChat
  BY StepStays
<1> QED BY <1>1, ChatHistory, PTL DEF SpecChat, TextAfterTools, StaysAbove
================================================================================
