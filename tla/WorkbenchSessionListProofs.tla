---------------------- MODULE WorkbenchSessionListProofs ----------------------
(***************************************************************************)
(* The session list for every number of sessions, providers, refreshes and *)
(* user actions: what it holds of a provider never goes back, its rows are *)
(* those of the catalog unless a hover defers them, its marks are in the   *)
(* storage, and only what is on screen is marked.                          *)
(*                                                                         *)
(* Refreshes is inductive and carries the other invariants: RowsMirror     *)
(* needs it where the server's list grows, and the refinement of FreshView *)
(* where a request is answered.  Marked is inductive by itself.            *)
(***************************************************************************)
EXTENDS WorkbenchSessionList, SequenceTheorems, TLAPS

\* Refreshes are numbered, and each was sent when the server's list was at
\* some revision that is still in its history.
Refreshes ==
    /\ history \in Seq(SUBSET Sessions) /\ Len(history) > 0
    /\ seen \in [Providers -> 0..Len(history)]
    /\ serial \in Nat /\ latestAll \in 0..serial /\ latest \in [Providers -> 0..serial]
    /\ \A r \in requests : r.serial \in 1..serial /\ r.from \in 1..Len(history)
                           /\ r.all \in BOOLEAN /\ r.scope \in SUBSET Providers
                           /\ (r.all => r.scope = Providers)
    /\ \A r, q \in requests : r.serial = q.serial => r = q

\* Three kinds of marks, in the window and in the storage.
Marked ==
    /\ local = [c \in Commands |-> local[c]]
    /\ stored = [c \in Commands |-> stored[c]]

-----------------------------------------------------------------------------
(* Refreshes *)

NewestOf(p) == {r \in requests : p \in r.scope /\ Newest(r)}

\* Of the refreshes under way at most one still counts for provider p, whatever
\* mixture of refreshes of all providers and of p is under way.
LEMMA OneNewest ==
    ASSUME Refreshes, NEW p \in Providers, NEW r \in NewestOf(p), NEW q \in NewestOf(p)
    PROVE  r = q
<1>1. /\ r \in requests /\ q \in requests /\ p \in r.scope /\ p \in q.scope
      /\ r.serial \in Nat /\ q.serial \in Nat /\ latestAll \in Nat /\ latest[p] \in Nat
  BY DEF NewestOf, Refreshes
<1>2. /\ r.all => latestAll = r.serial /\ latest[p] <= r.serial
      /\ ~r.all => latest[p] = r.serial /\ latestAll <= r.serial
      /\ q.all => latestAll = q.serial /\ latest[p] <= q.serial
      /\ ~q.all => latest[p] = q.serial /\ latestAll <= q.serial
  BY <1>1 DEF NewestOf, Newest
<1>3. r.serial = q.serial
  BY <1>1, <1>2 DEF Refreshes
<1> QED  BY <1>1, <1>3 DEF Refreshes

\* What FreshView calls the floor of provider p.
Floors ==
    \A p \in Providers : /\ \A r \in NewestOf(p) : FloorOf(p) = r.from
                         /\ NewestOf(p) = {} => FloorOf(p) = seen[p]

LEMMA FloorIs == Refreshes => Floors
<1> SUFFICES ASSUME Refreshes, NEW p \in Providers
             PROVE  /\ \A r \in NewestOf(p) : FloorOf(p) = r.from
                    /\ NewestOf(p) = {} => FloorOf(p) = seen[p]
  BY DEF Floors
<1>1. FloorOf(p) = IF NewestOf(p) = {} THEN seen[p]
                                       ELSE (CHOOSE r \in NewestOf(p) : TRUE).from
  BY DEF FloorOf, NewestOf
<1>2. ASSUME NEW r \in NewestOf(p) PROVE FloorOf(p) = r.from
  <2>1. (CHOOSE q \in NewestOf(p) : TRUE) \in NewestOf(p)
    BY <1>2
  <2>2. (CHOOSE q \in NewestOf(p) : TRUE) = r
    BY <1>2, <2>1, OneNewest
  <2> QED  BY <1>1, <1>2, <2>2
<1> QED  BY <1>1, <1>2

LEMMA FloorIsNext == Refreshes' => Floors'
  BY FloorIs, PTL

LEMMA RefreshesBegin == Init => Refreshes
<1> SUFFICES ASSUME Init PROVE Refreshes
  OBVIOUS
<1>1. PICK S \in SUBSET Sessions : history = <<S>>
  BY DEF Init
<1>2. history \in Seq(SUBSET Sessions) /\ Len(history) = 1
  BY <1>1
<1> QED  BY <1>2 DEF Init, Refreshes

LEMMA RefreshesKept == Refreshes /\ [Next]_vars => Refreshes'
<1> SUFFICES ASSUME Refreshes, [Next]_vars PROVE Refreshes'
  OBVIOUS
<1> USE DEF Refreshes
<1>1. ASSUME NEW P \in SUBSET Providers, NEW all \in BOOLEAN, all => P = Providers,
             serial' = serial + 1, requests' = requests \cup {Request(P, all)},
             latestAll' \in {latestAll, serial + 1}, UNCHANGED <<history, seen>>,
             latest' \in [Providers -> 0..(serial + 1)]
      PROVE  Refreshes'
  <2> DEFINE n == Request(P, all)
  <2>1. /\ n.serial = serial + 1 /\ n.scope = P /\ n.all = all /\ n.from = Len(history)
        /\ Len(history) \in Nat
    BY LenProperties DEF Request
  <2> HIDE DEF n
  <2>2. latestAll' \in 0..serial' /\ latest' \in [Providers -> 0..serial'] /\ serial' \in Nat
    BY <1>1
  <2>3. \A r \in requests' : r.serial \in 1..serial' /\ r.from \in 1..Len(history)
                             /\ r.all \in BOOLEAN /\ r.scope \in SUBSET Providers
                             /\ (r.all => r.scope = Providers)
    BY <1>1, <2>1 DEF n
  <2>4. \A r, q \in requests' : r.serial = q.serial => r = q
    BY <1>1, <2>1 DEF n
  <2> QED  BY <1>1, <2>2, <2>3, <2>4
<1>2. CASE refresh
  <2>1. /\ serial' = serial + 1 /\ requests' = requests \cup {Request(Providers, TRUE)}
        /\ latestAll' = serial + 1 /\ UNCHANGED <<history, seen, latest>>
    BY <1>2 DEF refresh
  <2>2. latest' \in [Providers -> 0..(serial + 1)]
    BY <2>1
  <2> QED  BY <1>1, <2>1, <2>2
<1>3. ASSUME NEW p \in Providers, refreshProvider(p) PROVE Refreshes'
  <2>1. /\ serial' = serial + 1 /\ requests' = requests \cup {Request({p}, FALSE)}
        /\ latest' = [latest EXCEPT ![p] = serial + 1]
        /\ UNCHANGED <<history, seen, latestAll>>
    BY <1>3 DEF refreshProvider
  <2>2. latest' \in [Providers -> 0..(serial + 1)]
    BY <2>1
  <2>3. {p} \in SUBSET Providers
    OBVIOUS
  <2> QED  BY <1>1, <2>1, <2>2, <2>3
<1>4. ASSUME NEW r \in requests, RefreshDone(r) PROVE Refreshes'
  <2>1. UNCHANGED <<history, serial, latestAll, latest>> /\ requests' \subseteq requests
    BY <1>4 DEF RefreshDone
  <2>2. seen' \in [Providers -> 0..Len(history)]
    <3>1. CASE UNCHANGED seen
      BY <3>1
    <3>2. ASSUME NEW rev \in r.from..Len(history), apply(r.scope, rev)
          PROVE  seen' \in [Providers -> 0..Len(history)]
      <4>1. rev \in 0..Len(history)
        BY <1>4, LenProperties
      <4> QED  BY <3>2, <4>1 DEF apply
    <3> QED  BY <1>4, <3>1, <3>2 DEF RefreshDone
  <2> QED  BY <2>1, <2>2
<1>5. ASSUME NEW r \in requests, RefreshFails(r) PROVE Refreshes'
  BY <1>5 DEF RefreshFails
<1>6. ASSUME NEW s \in Sessions, ServerChanges(s) PROVE Refreshes'
  <2>1. /\ Len(history) \in Nat /\ history[Len(history)] \in SUBSET Sessions
    BY LenProperties, ElementOfSeq
  <2>2. history' \in Seq(SUBSET Sessions) /\ Len(history') = Len(history) + 1
    BY <1>6, <2>1, AppendProperties DEF ServerChanges
  <2>3. UNCHANGED <<seen, serial, latestAll, latest, requests>>
    BY <1>6 DEF ServerChanges
  <2>4. seen' \in [Providers -> 0..Len(history')]
    BY <2>1, <2>2, <2>3
  <2> QED  BY <2>1, <2>2, <2>3, <2>4
<1>7. CASE Restart
  BY <1>7 DEF Restart
<1>8. CASE UNCHANGED <<history, seen, serial, latestAll, latest, requests>>
  BY <1>8
<1>9. CASE UNCHANGED vars
  BY <1>8, <1>9 DEF vars, catalog
<1>10. CASE Redraw
  BY <1>8, <1>10 DEF Redraw, catalog
<1>11. CASE UserActs
  BY <1>7, <1>8, <1>11
     DEF UserActs, handleSelection, MouseEnter, showContextMenu, runSessionAction, SessionCreated,
         onKeyDown, toggleSection, MouseLeave, ScrolledAway, clear, toggleFilter, TypeFilter,
         closeContextMenu, catalog
<1> QED  BY <1>2, <1>3, <1>4, <1>5, <1>6, <1>9, <1>10, <1>11 DEF Next, Answers

-----------------------------------------------------------------------------
(* What the window holds of one provider implements FreshView *)

\* A refresh of P is sent and outdates what is under way for its providers; a
\* refresh of one provider also outdates those of all for the other providers.
LEMMA SentIsFresh ==
    ASSUME Refreshes, Refreshes', NEW P \in SUBSET Providers, NEW all \in BOOLEAN,
           all => P = Providers,
           serial' = serial + 1, requests' = requests \cup {Request(P, all)},
           all => latestAll' = serial + 1 /\ latest' = latest,
           ~all => latestAll' = latestAll
                   /\ \A q \in Providers : latest'[q] = IF q \in P THEN serial + 1 ELSE latest[q],
           UNCHANGED <<history, seen>>, NEW p \in Providers
    PROVE  [Fresh(p)!Next]_(Fresh(p)!vars)
<1>1. PICK n : n = Request(P, all)
  OBVIOUS
<1>2. /\ n.serial = serial + 1 /\ n.scope = P /\ n.all = all /\ n.from = Len(history)
      /\ serial \in Nat /\ requests' = requests \cup {n}
      /\ \A r \in requests : r.serial \in 1..serial
      /\ latestAll \in 0..serial /\ \A q \in Providers : latest[q] \in 0..serial
  BY <1>1 DEF Request, Refreshes
<1>3. Newest(n)'
  <2>1. CASE all
    BY <1>2, <2>1 DEF Newest
  <2>2. CASE ~all
    <3>1. \A q \in P : latest'[q] = serial + 1
      BY <2>2
    <3> QED  BY <1>2, <2>2, <3>1 DEF Newest
  <2> QED  BY <2>1, <2>2
<1>4. Floors /\ Floors'
  BY FloorIs, FloorIsNext
<1>5. CASE p \in P
  <2>1. n \in NewestOf(p)'
    BY <1>2, <1>3, <1>5 DEF NewestOf
  <2>2. FloorOf(p)' = Len(history)
    BY <1>2, <1>4, <2>1 DEF Floors
  <2> QED  BY <2>2 DEF Fresh!Next, Fresh!Ask
<1>6. CASE p \notin P
  <2>1. ~all /\ latest'[p] = latest[p] /\ latestAll' = latestAll
    BY <1>6
  <2>2. ASSUME NEW r \in NewestOf(p)' PROVE r \in NewestOf(p)
    <3>1. r \in requests /\ p \in r.scope /\ Newest(r)'
      BY <1>2, <1>6, <2>2 DEF NewestOf
    <3>2. Newest(r)
      <4>1. CASE r.all
        <5>1. latestAll = r.serial
          BY <2>1, <3>1, <4>1 DEF Newest
        <5>2. ASSUME NEW q \in Providers PROVE latest[q] <= r.serial
          <6>1. latest'[q] <= r.serial /\ r.serial \in 1..serial
            BY <1>2, <3>1, <4>1 DEF Newest
          <6> QED  BY <1>2, <2>1, <6>1
        <5> QED  BY <4>1, <5>1, <5>2 DEF Newest
      <4>2. CASE ~r.all
        <5>1. \A q \in r.scope : latest'[q] = r.serial
          BY <3>1, <4>2 DEF Newest
        <5>2. r.scope \subseteq Providers /\ r.serial # serial + 1
          BY <1>2, <3>1 DEF Refreshes
        <5>3. \A q \in r.scope : latest[q] = r.serial
          BY <2>1, <5>1, <5>2
        <5> QED  BY <2>1, <3>1, <4>2, <5>3 DEF Newest
      <4> QED  BY <4>1, <4>2
    <3> QED  BY <3>1, <3>2 DEF NewestOf
  <2>3. CASE NewestOf(p)' = {}
    <3>1. FloorOf(p)' = seen[p]
      BY <1>4, <2>3 DEF Floors
    <3> QED  BY <3>1 DEF Fresh!Next, Fresh!GiveUp
  <2>4. CASE NewestOf(p)' # {}
    <3>1. PICK r : r \in NewestOf(p)'
      BY <2>4
    <3>2. FloorOf(p)' = r.from /\ FloorOf(p) = r.from
      BY <1>4, <2>2, <3>1 DEF Floors
    <3> QED  BY <3>2 DEF Fresh!vars
  <2> QED  BY <2>3, <2>4
<1> QED  BY <1>5, <1>6

\* A refresh ends: if it still counts, its answer is shown or it is given up;
\* if it does not, nothing is to be seen of it.
LEMMA EndedIsFresh ==
    ASSUME Refreshes, Refreshes', NEW r \in requests, RefreshDone(r) \/ RefreshFails(r),
           NEW p \in Providers
    PROVE  [Fresh(p)!Next]_(Fresh(p)!vars)
<1>1. requests' = requests \ {r} /\ UNCHANGED <<history, serial, latestAll, latest>>
  BY DEF RefreshDone, RefreshFails
<1>2. NewestOf(p)' = NewestOf(p) \ {r}
  BY <1>1 DEF NewestOf, Newest
<1>3. Floors /\ Floors'
  BY FloorIs, FloorIsNext
<1>4. CASE r \in NewestOf(p)
  <2>1. NewestOf(p)' = {}
    BY <1>2, <1>4, OneNewest
  <2>2. FloorOf(p) = r.from /\ FloorOf(p)' = seen'[p] /\ p \in r.scope /\ Newest(r)
    BY <1>3, <1>4, <2>1 DEF Floors, NewestOf
  <2>3. CASE RefreshFails(r)
    <3>1. UNCHANGED <<history, seen>>
      BY <2>3 DEF RefreshFails
    <3> QED  BY <2>2, <3>1 DEF Fresh!Next, Fresh!GiveUp
  <2>4. CASE RefreshDone(r)
    <3>1. PICK rev \in r.from..Len(history) : apply(r.scope, rev)
      BY <2>2, <2>4 DEF RefreshDone
    <3>2. seen'[p] = rev
      BY <2>2, <3>1 DEF apply
    <3> QED  BY <1>1, <2>2, <3>1, <3>2 DEF Fresh!Next, Fresh!Show
  <2> QED  BY <2>3, <2>4
<1>5. CASE r \notin NewestOf(p)
  <2>1. NewestOf(p)' = NewestOf(p)
    BY <1>2, <1>5
  <2>2. seen'[p] = seen[p]
    <3>1. CASE p \in r.scope
      <4>1. ~Newest(r)
        BY <1>5, <3>1 DEF NewestOf
      <4> QED  BY <4>1 DEF RefreshDone, RefreshFails
    <3>2. CASE p \notin r.scope
      BY <3>2 DEF RefreshDone, RefreshFails, apply, Refreshes
    <3> QED  BY <3>1, <3>2
  <2>3. FloorOf(p)' = FloorOf(p)
    <3>1. CASE NewestOf(p) = {}
      BY <1>3, <2>1, <2>2, <3>1 DEF Floors
    <3>2. CASE NewestOf(p) # {}
      BY <1>3, <2>1, <3>2 DEF Floors
    <3> QED  BY <3>1, <3>2
  <2> QED  BY <1>1, <2>2, <2>3 DEF Fresh!vars
<1> QED  BY <1>4, <1>5

\* Every step but a restart is a step of FreshView or leaves it alone.
LEMMA StepIsFresh ==
    ASSUME Refreshes, Refreshes', [Next]_vars, ~Restart, NEW p \in Providers
    PROVE  [Fresh(p)!Next]_(Fresh(p)!vars)
<1>0. Len(history) \in Nat
  BY LenProperties DEF Refreshes
<1>1. ASSUME UNCHANGED <<history, seen, latestAll, latest, requests>>
      PROVE  [Fresh(p)!Next]_(Fresh(p)!vars)
  <2>1. FloorOf(p)' = FloorOf(p)
    BY <1>1 DEF FloorOf, Newest
  <2> QED  BY <1>1, <2>1 DEF Fresh!vars
<1>2. CASE refresh
  <2>1. /\ serial' = serial + 1 /\ requests' = requests \cup {Request(Providers, TRUE)}
        /\ latestAll' = serial + 1 /\ UNCHANGED <<history, seen, latest>>
    BY <1>2 DEF refresh
  <2> QED  BY <2>1, SentIsFresh
<1>3. ASSUME NEW q \in Providers, refreshProvider(q) PROVE [Fresh(p)!Next]_(Fresh(p)!vars)
  <2>1. /\ serial' = serial + 1 /\ requests' = requests \cup {Request({q}, FALSE)}
        /\ latest' = [latest EXCEPT ![q] = serial + 1]
        /\ UNCHANGED <<history, seen, latestAll>>
    BY <1>3 DEF refreshProvider
  <2>2. \A o \in Providers : latest'[o] = IF o \in {q} THEN serial + 1 ELSE latest[o]
    BY <2>1 DEF Refreshes
  <2>3. {q} \in SUBSET Providers
    OBVIOUS
  <2> QED  BY <2>1, <2>2, <2>3, SentIsFresh
<1>4. CASE Answers
  BY <1>4, EndedIsFresh DEF Answers
<1>5. ASSUME NEW s \in Sessions, ServerChanges(s) PROVE [Fresh(p)!Next]_(Fresh(p)!vars)
  <2>1. UNCHANGED <<seen, serial, latestAll, latest, requests>>
    BY <1>5 DEF ServerChanges
  <2>2. FloorOf(p)' = FloorOf(p)
    BY <2>1 DEF FloorOf, Newest
  <2>3. Len(history') = Len(history) + 1
    <3>1. history[Len(history)] \in SUBSET Sessions
      BY <1>0, ElementOfSeq DEF Refreshes
    <3> QED  BY <1>5, <3>1, AppendProperties DEF ServerChanges, Refreshes
  <2> QED  BY <2>1, <2>2, <2>3 DEF Fresh!Next, Fresh!Change
<1>6. CASE Redraw \/ UNCHANGED vars
  BY <1>1, <1>6 DEF Redraw, vars, catalog
<1>7. CASE UserActs
  <2>1. UNCHANGED <<history, seen, latestAll, latest, requests>>
    BY <1>7
       DEF UserActs, handleSelection, MouseEnter, showContextMenu, runSessionAction,
           SessionCreated, onKeyDown, toggleSection, MouseLeave, ScrolledAway, clear,
           toggleFilter, TypeFilter, closeContextMenu, catalog
  <2> QED  BY <1>1, <2>1
<1> QED  BY <1>2, <1>3, <1>4, <1>5, <1>6, <1>7 DEF Next

(* Overlapping refreshes of all providers and of one, answered in any order *)
(* or failing, never bring back an older list of any provider               *)
(* (SessionCatalogService.refresh, refreshProvider).                        *)
THEOREM ItemsImplementFreshView == Spec => ItemsAreFresh
<1>1. Init => \A p \in Providers : Fresh(p)!Init
  <2> SUFFICES ASSUME Init, NEW p \in Providers PROVE Fresh(p)!Init
    OBVIOUS
  <2>1. Refreshes /\ Floors
    BY RefreshesBegin, FloorIs
  <2>2. FloorOf(p) = seen[p]
    BY <2>1 DEF Init, NewestOf, Floors
  <2> QED  BY <2>1, <2>2, LenProperties DEF Refreshes, Fresh!Init
<1>2. Refreshes /\ Refreshes' /\ [Next]_vars
        => [\A p \in Providers : [Fresh(p)!Next]_(Fresh(p)!vars) \/ Restart]_vars
  BY StepIsFresh
<1> QED  BY <1>1, <1>2, RefreshesBegin, RefreshesKept, PTL DEF Spec, ItemsAreFresh

\* What follows for whoever shows the items.
Bracketed == \A p \in Providers : Fresh(p)!Bracketed

NeverBack == \A p \in Providers : seen'[p] >= seen[p] /\ seen'[p] <= Len(history')

LEMMA FreshSteps ==
    ASSUME Refreshes, Floors, Refreshes', Floors', Bracketed,
           NEW p \in Providers, [Fresh(p)!Next]_(Fresh(p)!vars)
    PROVE  (Fresh(p)!Bracketed)' /\ seen'[p] >= seen[p] /\ seen'[p] <= Len(history')
<1>1. Fresh(p)!TypeOK
  <2>1. Len(history) \in Nat /\ seen[p] \in Nat
    BY LenProperties DEF Refreshes
  <2>2. FloorOf(p) \in Nat
    <3>1. CASE NewestOf(p) = {}
      BY <2>1, <3>1 DEF Floors
    <3>2. ASSUME NEW r \in NewestOf(p) PROVE FloorOf(p) \in Nat
      <4>1. r.from \in 1..Len(history)
        BY <3>2 DEF Refreshes, NewestOf
      <4> QED  BY <2>1, <3>2, <4>1 DEF Floors
    <3> QED  BY <3>1, <3>2
  <2> QED  BY <2>1, <2>2 DEF Fresh!TypeOK
<1> QED
  BY <1>1 DEF Bracketed, Fresh!TypeOK, Fresh!Bracketed, Fresh!Next, Fresh!vars, Fresh!Change, Fresh!Ask,
     Fresh!Show, Fresh!GiveUp

(* Until the window restarts, the items of a provider are never replaced by *)
(* older ones, nor by what the server never had, in whatever order the      *)
(* refreshes are answered (SessionCatalogService.refresh, refreshProvider). *)
THEOREM ItemsNeverGoBack == Spec => [][NeverBack \/ Restart]_vars
<1>1. (\A p \in Providers : Fresh(p)!Init) => Bracketed
  BY DEF Bracketed, Fresh!Init, Fresh!Bracketed
<1>2. Refreshes /\ Refreshes' /\ Bracketed
        /\ [\A p \in Providers : [Fresh(p)!Next]_(Fresh(p)!vars) \/ Restart]_vars
        => Bracketed' /\ [NeverBack \/ Restart]_vars
  <2> SUFFICES ASSUME Refreshes, Refreshes', Bracketed,
                      [\A p \in Providers : [Fresh(p)!Next]_(Fresh(p)!vars) \/ Restart]_vars
               PROVE  Bracketed' /\ [NeverBack \/ Restart]_vars
    OBVIOUS
  <2>1. Floors /\ Floors'
    BY FloorIs, FloorIsNext
  <2>2. CASE Restart
    <3>1. ASSUME NEW p \in Providers PROVE (Fresh(p)!Bracketed)'
      <4>1. seen'[p] = 0 /\ requests' = {} /\ Len(history') \in Nat
        BY <2>2, LenProperties DEF Restart, Refreshes
      <4>2. FloorOf(p)' = 0
        BY <2>1, <4>1 DEF Floors, NewestOf
      <4> QED  BY <4>1, <4>2 DEF Fresh!Bracketed
    <3> QED  BY <2>2, <3>1 DEF Bracketed
  <2>3. CASE \A p \in Providers : [Fresh(p)!Next]_(Fresh(p)!vars)
    BY <2>1, <2>3, FreshSteps DEF Bracketed, NeverBack
  <2>4. CASE UNCHANGED vars
    <3>1. ASSUME NEW p \in Providers PROVE (Fresh(p)!Bracketed)'
      <4>1. UNCHANGED <<history, seen, latestAll, latest, requests>>
        BY <2>4 DEF vars, catalog
      <4>2. FloorOf(p)' = FloorOf(p)
        BY <4>1 DEF FloorOf, Newest
      <4> QED  BY <4>1, <4>2 DEF Bracketed, Fresh!Bracketed
    <3> QED  BY <2>4, <3>1 DEF Bracketed
  <2> QED  BY <2>2, <2>3, <2>4
<1> QED  BY <1>1, <1>2, ItemsImplementFreshView, RefreshesBegin, RefreshesKept, PTL DEF Spec, ItemsAreFresh

-----------------------------------------------------------------------------
(* The rows on screen *)

\* The rows depend on the items, the pins, the archive, the sections and the
\* text of the filter, and on nothing else.
LEMMA SameRows ==
    ASSUME Items' = Items, Listed' = Listed, (filter' = "text") = (filter = "text"),
           local'.archived = local.archived, local'.pinned = local.pinned,
           UNCHANGED collapsed
    PROVE  Rows' = Rows
<1>1. ASSUME NEW w \in Workspaces PROVE Entries(w)' = Entries(w)
  BY DEF Entries, Section, Listed
<1>2. ASSUME NEW w \in Workspaces PROVE RowsOf(w)' = RowsOf(w)
  BY <1>1 DEF RowsOf
<1> QED  BY <1>2 DEF Rows

LEMMA QuietRows ==
    ASSUME UNCHANGED <<history, seen, added, local, collapsed, filter>>
    PROVE  Rows' = Rows
<1>1. Items' = Items
  BY DEF Items
<1>2. Listed' = Listed
  BY <1>1 DEF Listed
<1> QED  BY <1>1, <1>2, SameRows

\* What draws or defers leaves nothing undrawn, nor does what changes nothing
\* the rows are made of.
LEMMA Drawn ==
    \/ updateRows
    \/ catalogChanged /\ UNCHANGED hovered
    \/ RowsMirror /\ UNCHANGED <<history, seen, added, local, collapsed, filter, rows, hovered,
                                 pending>>
    => RowsMirror'
BY QuietRows DEF updateRows, catalogChanged, RowsMirror

LEMMA SelectDraws ==
    ASSUME RowsMirror, NEW s, NEW at, select(s, at),
           UNCHANGED <<catalog, collapsed, filter, hovered>>
    PROVE  RowsMirror'
<1>1. CASE updateRows
  BY <1>1, Drawn
<1>2. CASE s \in local.unread /\ hovered # None
  BY <1>2 DEF select, RowsMirror
<1>3. CASE s \notin local.unread /\ UNCHANGED rows
  <2>1. Rows' = Rows
    BY <1>3, QuietRows DEF select, marks, catalog
  <2>2. pending => pending'
    BY DEF select
  <2> QED  BY <1>3, <2>1, <2>2 DEF RowsMirror
<1> QED  BY <1>1, <1>2, <1>3 DEF select

\* An answer that shows the same sessions changes no row.
LEMMA AnswerDraws ==
    ASSUME RowsMirror, NEW r \in requests, RefreshDone(r) PROVE RowsMirror'
<1>1. UNCHANGED <<history, local, collapsed, filter, hovered>>
  BY DEF RefreshDone, marks
<1>2. CASE UNCHANGED <<seen, added, screen, pending>>
  BY <1>1, <1>2, Drawn DEF screen
<1>3. ASSUME NEW rev \in r.from..Len(history), apply(r.scope, rev) PROVE RowsMirror'
  <2>1. CASE catalogChanged
    BY <1>1, <2>1, Drawn
  <2>2. CASE Items' = Items /\ Listed' = Listed /\ UNCHANGED <<screen, pending>>
    <3>1. Rows' = Rows
      BY <1>1, <2>2, SameRows
    <3> QED  BY <1>1, <2>2, <3>1 DEF RowsMirror, screen
  <2> QED  BY <1>3, <2>1, <2>2 DEF apply
<1> QED  BY <1>2, <1>3 DEF RefreshDone

\* What the server has not been asked for changes no row.
LEMMA ServerDraws ==
    ASSUME Refreshes, RowsMirror, NEW s \in Sessions, ServerChanges(s) PROVE RowsMirror'
<1>1. UNCHANGED <<seen, added, local, collapsed, filter, rows, hovered, pending>>
  BY DEF ServerChanges, marks, View, screen
<1>2. \A i \in 1..Len(history) : history'[i] = history[i]
  <2>1. history[Len(history)] \in SUBSET Sessions
    BY ElementOfSeq DEF Refreshes
  <2> QED  BY <2>1, AppendProperties, LenProperties DEF ServerChanges, Refreshes
<1>3. Items' = Items
  <2>1. \A p \in Providers : seen[p] > 0 => history'[seen[p]] = history[seen[p]]
    BY <1>2, LenProperties DEF Refreshes
  <2> QED  BY <1>1, <2>1 DEF Items
<1>4. Listed' = Listed
  BY <1>1, <1>3 DEF Listed
<1> QED  BY <1>1, <1>3, <1>4, SameRows DEF RowsMirror

LEMMA ClickDraws == RowsMirror /\ UserActs => RowsMirror'
<1> SUFFICES ASSUME RowsMirror, UserActs PROVE RowsMirror'
  OBVIOUS
<1>1. ASSUME NEW s \in Sessions, NEW modifier \in {"none", "ctrl", "shift"},
             handleSelection(s, modifier)
      PROVE  RowsMirror'
  BY <1>1, Drawn, SelectDraws DEF handleSelection
<1>2. ASSUME NEW s \in Sessions, MouseEnter(s) PROVE RowsMirror'
  <2>1. s # None
    BY SessionAssumption
  <2>2. UNCHANGED <<history, seen, added, local, collapsed, filter, rows, pending>> /\ hovered' = s
    BY <1>2 DEF MouseEnter, catalog, marks
  <2> QED  BY <2>1, <2>2, QuietRows DEF RowsMirror
<1>3. ASSUME NEW s \in Sessions, NEW byMouse \in BOOLEAN, showContextMenu(s, byMouse)
      PROVE  RowsMirror'
  BY <1>3, Drawn DEF showContextMenu, catalog, marks, screen
<1>4. ASSUME NEW s \in Sessions, NEW cmd \in Commands, runSessionAction(cmd, s)
      PROVE  RowsMirror'
  BY <1>4, Drawn DEF runSessionAction, catalog, marks, screen
<1>5. ASSUME NEW s \in Sessions, SessionCreated(s) PROVE RowsMirror'
  BY <1>5, Drawn DEF SessionCreated
<1>6. ASSUME NEW i \in 1..(Len(rows) + 1), onKeyDown(i) PROVE RowsMirror'
  <2>1. CASE select(rows[i].of, i)
    BY <1>6, <2>1, SelectDraws DEF onKeyDown
  <2>2. CASE UNCHANGED <<marks, active, rows, mouse, pending>>
    BY <1>6, <2>2, Drawn DEF onKeyDown, catalog, marks
  <2> QED  BY <1>6, <2>1, <2>2 DEF onKeyDown
<1>7. ASSUME NEW w \in Workspaces, toggleSection(w) PROVE RowsMirror'
  BY <1>7, Drawn DEF toggleSection
<1>8. CASE MouseLeave
  <2>1. CASE pending
    BY <1>8, <2>1 DEF MouseLeave, RowsMirror
  <2>2. CASE ~pending
    <3>1. Rows' = Rows
      BY <1>8, QuietRows DEF MouseLeave, catalog, marks
    <3> QED  BY <1>8, <2>2, <3>1 DEF MouseLeave, RowsMirror
  <2> QED  BY <2>1, <2>2
<1>9. CASE ScrolledAway \/ closeContextMenu
  BY <1>9, Drawn DEF ScrolledAway, closeContextMenu, catalog, marks, screen
<1>10. CASE clear \/ TypeFilter
  BY <1>10, Drawn DEF clear, TypeFilter
<1>11. CASE toggleFilter
  <2>1. CASE filter = "hidden"
    <3>1. /\ filter' # "text" /\ filter # "text"
          /\ UNCHANGED <<history, seen, added, local, collapsed, rows, hovered, pending>>
      BY <1>11, <2>1 DEF toggleFilter, catalog, marks, screen
    <3>2. Items' = Items
      BY <3>1 DEF Items
    <3>3. Listed' = Listed
      BY <3>1, <3>2 DEF Listed
    <3>4. (filter' = "text") = (filter = "text")
      BY <3>1
    <3>5. Rows' = Rows
      BY <3>1, <3>2, <3>3, <3>4, SameRows
    <3> QED  BY <3>1, <3>5 DEF RowsMirror
  <2>2. CASE filter # "hidden"
    BY <1>11, <2>2, Drawn DEF toggleFilter
  <2> QED  BY <2>1, <2>2
<1>12. CASE Restart
  BY <1>12 DEF Restart, RowsMirror
<1> QED  BY <1>1, <1>2, <1>3, <1>4, <1>5, <1>6, <1>7, <1>8, <1>9, <1>10, <1>11, <1>12 DEF UserActs

(* No path changes the items, the marks, the sections or the filter without *)
(* drawing the rows, and a hover that ends leaves nothing undrawn           *)
(* (SessionCatalogPane.updateRows, its listeners and commands).             *)
THEOREM RowsAreDrawn == Spec => []RowsMirror
<1>1. Init => RowsMirror
  BY DEF Init, RowsMirror
<1>2. Refreshes /\ RowsMirror /\ [Next]_vars => RowsMirror'
  <2> SUFFICES ASSUME Refreshes, RowsMirror, [Next]_vars PROVE RowsMirror'
    OBVIOUS
  <2>1. CASE UserActs
    BY <2>1, ClickDraws
  <2>2. CASE Answers
    BY <2>2, AnswerDraws, Drawn DEF Answers, RefreshFails, marks, View, screen
  <2>3. CASE Redraw
    BY <2>3, Drawn DEF Redraw
  <2>4. CASE refresh \/ \E p \in Providers : refreshProvider(p)
    BY <2>4, Drawn DEF refresh, refreshProvider, marks, View, screen
  <2>5. CASE \E s \in Sessions : ServerChanges(s)
    BY <2>5, ServerDraws
  <2>6. CASE UNCHANGED vars
    BY <2>6, Drawn DEF vars, catalog, marks, screen
  <2> QED  BY <2>1, <2>2, <2>3, <2>4, <2>5, <2>6 DEF Next
<1> QED  BY <1>1, <1>2, RefreshesBegin, RefreshesKept, PTL DEF Spec

-----------------------------------------------------------------------------
(* Pins, archive and read marks *)

LEMMA MarksBegin == Init => Marked /\ MarksStored
<1> SUFFICES ASSUME Init PROVE Marked /\ MarksStored
  OBVIOUS
<1>1. stored = [c \in Commands |-> stored[c]]
  BY DEF Init, Commands
<1> QED  BY <1>1 DEF Init, Marked, MarksStored

\* A step that changes the marks stores them or is a restart.
LEMMA ChangesAreStored ==
    [Next]_vars => \/ UNCHANGED marks
                   \/ \E state : localStateChanged(state)
                   \/ Restart
<1> SUFFICES ASSUME [Next]_vars PROVE UNCHANGED marks \/ (\E state : localStateChanged(state)) \/ Restart
  OBVIOUS
<1>1. CASE UserActs
  BY <1>1 DEF UserActs, handleSelection, select, MouseEnter, showContextMenu, runSessionAction,
              SessionCreated, onKeyDown, toggleSection, MouseLeave, ScrolledAway, clear,
              toggleFilter, TypeFilter, closeContextMenu
<1>2. CASE ~UserActs
  BY <1>2 DEF Next, Answers, RefreshDone, RefreshFails, Redraw, refresh, refreshProvider,
              ServerChanges, vars
<1> QED  BY <1>1, <1>2

(* The marks are in the storage whichever path changed them, unless the     *)
(* storage refused the latest write (SessionCatalogService.localStateChanged). *)
THEOREM NoMarkIsLost == Spec => []MarksStored
<1>1. MarksStored /\ [Next]_vars => MarksStored'
  <2>1. UNCHANGED marks \/ Restart \/ (\E state : localStateChanged(state)) => (MarksStored => MarksStored')
    BY DEF MarksStored, marks, Restart, localStateChanged
  <2> QED  BY <2>1, ChangesAreStored
<1> QED  BY <1>1, MarksBegin, PTL DEF Spec

\* Session t has another mark of some kind after the step.
Touched(t) == \E c \in Commands : (t \in local'[c]) # (t \in local[c])

\* Opening a row marks it read and nothing else.
LEMMA SelectTouches ==
    ASSUME Marked, NEW s, NEW at, select(s, at)
    PROVE  Marked' /\ \A t \in Sessions : Touched(t) => t = s
<1>1. CASE UNCHANGED marks
  BY <1>1 DEF marks, Marked, Touched
<1>2. CASE localStateChanged([local EXCEPT !.unread = @ \ {s}])
  <2>1. local' = [local EXCEPT !.unread = @ \ {s}] /\ stored' \in {stored, local'}
    BY <1>2 DEF localStateChanged
  <2>2. \A c \in Commands : local'[c] = IF c = "unread" THEN local[c] \ {s} ELSE local[c]
    BY <2>1 DEF Marked
  <2>3. PICK U : U = local.unread \ {s}
    OBVIOUS
  <2>4. local' = [local EXCEPT !["unread"] = U]
    BY <2>1, <2>3
  <2>5. local' = [c \in Commands |-> local'[c]]
    BY <2>4 DEF Marked
  <2>6. stored' = [c \in Commands |-> stored'[c]]
    BY <2>1, <2>5 DEF Marked
  <2> QED  BY <2>2, <2>5, <2>6 DEF Touched, Marked
<1> QED  BY <1>1, <1>2 DEF select

\* A command marks its targets and nothing else, and its targets are the
\* selected rows on screen or the session it was given for.
LEMMA CommandTouches ==
    ASSUME Marked, NEW s \in Sessions, NEW cmd \in Commands, runSessionAction(cmd, s)
    PROVE  Marked' /\ \A t \in Sessions : Touched(t) => t \in OnScreen \cup {menu}
<1>1. actionContext(s) \subseteq OnScreen \cup {menu}
  BY DEF runSessionAction, actionContext
<1>2. CASE UNCHANGED marks
  BY <1>2 DEF marks, Marked, Touched
<1>3. CASE localStateChanged(Commanded(cmd, s, actionContext(s)))
  <2>1. PICK T : T = actionContext(s)
    OBVIOUS
  <2>2. local' = Commanded(cmd, s, T) /\ stored' \in {stored, local'}
    BY <1>3, <2>1 DEF localStateChanged
  <2>3. /\ local' = [c \in Commands |-> local'[c]]
        /\ \A c \in Commands, t \in Sessions : t \notin T => (t \in local'[c]) = (t \in local[c])
    <3>1. CASE cmd = "unread"
      <4>1. local' = [local EXCEPT !.unread = IF s \in @ THEN @ \cup T ELSE @ \ T]
        BY <2>2, <3>1 DEF Commanded
      <4> QED  BY <4>1 DEF Marked
    <3>2. CASE cmd # "unread"
      <4>1. PICK U : U = (local[cmd] \ T) \cup (T \ local[cmd])
        OBVIOUS
      <4>2. local' = [local EXCEPT ![cmd] = U]
        BY <2>2, <3>2, <4>1 DEF Commanded
      <4>3. \A c \in Commands : local'[c] = IF c = cmd THEN U ELSE local[c]
        BY <4>2 DEF Marked
      <4>4. local' = [c \in Commands |-> local'[c]]
        BY <4>2 DEF Marked
      <4> QED  BY <4>1, <4>3, <4>4
    <3> QED  BY <3>1, <3>2
  <2>4. Marked'
    BY <2>2, <2>3 DEF Marked
  <2> QED  BY <1>1, <2>1, <2>3, <2>4 DEF Touched
<1> QED  BY <1>2, <1>3 DEF runSessionAction

LEMMA OnlyOnScreenTouched ==
    Marked /\ [Next]_vars
      => Marked' /\ ((\A t \in Sessions : Touched(t) => t \in OnScreen \cup {menu}) \/ Restart)
<1> DEFINE Allowed == (\A t \in Sessions : Touched(t) => t \in OnScreen \cup {menu}) \/ Restart
<1> SUFFICES ASSUME Marked, [Next]_vars PROVE Marked' /\ Allowed
  OBVIOUS
<1>1. CASE UNCHANGED marks
  BY <1>1 DEF marks, Marked, Touched
<1>2. ASSUME NEW s \in Sessions, NEW modifier \in {"none", "ctrl", "shift"},
             handleSelection(s, modifier)
      PROVE  Marked' /\ Allowed
  <2>1. s \in OnScreen /\ (UNCHANGED marks \/ select(s, cursor))
    BY <1>2 DEF handleSelection
  <2> QED  BY <1>1, <2>1, SelectTouches
<1>3. ASSUME NEW i \in 1..(Len(rows) + 1), onKeyDown(i) PROVE Marked' /\ Allowed
  <2>1. CASE UNCHANGED marks
    BY <1>1, <2>1
  <2>2. CASE rows[i].kind = "session" /\ select(rows[i].of, i)
    <3>1. rows[i].of \in OnScreen
      BY <1>3, <2>2 DEF onKeyDown, OnScreen
    <3> QED  BY <2>2, <3>1, SelectTouches
  <2> QED  BY <1>3, <2>1, <2>2 DEF onKeyDown
<1>4. ASSUME NEW s \in Sessions, NEW cmd \in Commands, runSessionAction(cmd, s)
      PROVE  Marked' /\ Allowed
  BY <1>4, CommandTouches
<1>5. CASE Restart
  BY <1>5 DEF Restart, Marked
<1>6. CASE UserActs
  BY <1>1, <1>2, <1>3, <1>4, <1>5, <1>6
     DEF UserActs, MouseEnter, showContextMenu, SessionCreated, toggleSection, MouseLeave,
         ScrolledAway, clear, toggleFilter, TypeFilter, closeContextMenu
<1>7. CASE ~UserActs
  <2>1. UNCHANGED marks
    BY <1>7 DEF Next, Answers, RefreshDone, RefreshFails, Redraw, refresh, refreshProvider,
                ServerChanges, vars
  <2> QED  BY <1>1, <2>1
<1> QED  BY <1>6, <1>7

(* A command marks only sessions on screen or the one whose menu it was     *)
(* chosen from, however old the selection is (actionContext), and opening a *)
(* row with the pointer or the keyboard marks that row (select).            *)
THEOREM OnlyVisibleMarked == Spec => MarksOnScreen
<1>1. Marked /\ [Next]_vars
        => [\A s \in Sessions :
              (\E c \in Commands : (s \in local'[c]) # (s \in local[c]))
                => s \in OnScreen \cup {menu} \/ Restart]_local
  BY OnlyOnScreenTouched DEF Touched
<1>2. Marked /\ [Next]_vars => Marked'
  BY OnlyOnScreenTouched
<1> QED  BY <1>1, <1>2, MarksBegin, PTL DEF Spec, MarksOnScreen

=============================================================================
