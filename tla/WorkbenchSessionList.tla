------------------------ MODULE WorkbenchSessionList ------------------------
(***************************************************************************)
(* The list of sessions in the side bar: SessionCatalogService, which      *)
(* polls the server and keeps pins, archive and read marks, the order of   *)
(* the sections, and SessionCatalogPane, which draws the rows.             *)
(*                                                                         *)
(* Answers of overlapping refreshes arrive in any order.  The pane draws   *)
(* its rows when the service changes, except while the pointer rests on a  *)
(* row; selection, keyboard position and context menu outlive the rows     *)
(* they were made for.                                                     *)
(*                                                                         *)
(* The server's list is the history of the sessions it has held; what the  *)
(* window holds of a provider is a position in that history.  Titles,      *)
(* times, badges and status icons are left out; the filter is a text that  *)
(* some sessions match; a list fits in one page of 200.                    *)
(***************************************************************************)
EXTENDS Naturals, Sequences, FiniteSets, SequencesExt

CONSTANTS
    Order,          \* all sessions by repository and time, a sequence
    WorkspaceOrder, \* the workspaces of the window, a sequence
    Home,           \* the workspace of each session
    Provider,       \* the agent provider of each session
    Matching,       \* the sessions the filter text matches
    None,           \* no session
    MaxClicks,      \* bound: user actions in a behaviour
    MaxRefresh,     \* bound: refreshes in a behaviour
    MaxRev          \* bound: revisions of the server's list

Sessions == Range(Order)
Workspaces == Range(WorkspaceOrder)
Providers == {Provider[s] : s \in Sessions}

ASSUME SessionAssumption ==
    /\ Home \in [Sessions -> Workspaces]
    /\ DOMAIN Provider = Sessions
    /\ Matching \subseteq Sessions
    /\ None \notin Sessions

ASSUME BoundAssumption ==
    MaxClicks \in Nat /\ MaxRefresh \in Nat \ {0} /\ MaxRev \in Nat \ {0}

VARIABLES
    history,   \* the sessions at the server, oldest revision first
    seen,      \* _items: the revision held of each provider, 0 before the first
    added,     \* sessions of _sessions that are not in _items
    serial,    \* refreshSerial
    latestAll, \* latestAllRefresh
    latest,    \* latestProviderRefresh, 0 where there is none
    requests,  \* refreshes under way
    local,     \* archived, pinned, unread
    stored,    \* the local state in the browser's storage
    refused,   \* the storage has refused the latest write
    collapsed, \* the collapsed sections
    filter,    \* the search field: hidden, empty or with a text
    active,    \* the active session of the window
    rows,      \* the rows on screen
    cursor,    \* selectedIndex + 1
    selected,  \* selected
    anchor,    \* selectionAnchor + 1
    mouse,     \* the row the pointer is over
    hovered,   \* hoveredSessionKey
    pending,   \* pendingCatalogUpdate
    menu,      \* the session whose context menu is open
    clicks     \* user actions so far

catalog == <<history, seen, added, serial, latestAll, latest, requests>>
marks == <<local, stored, refused>>
picking == <<selected, anchor, menu>>
screen == <<rows, cursor, mouse>>
vars == <<catalog, marks, collapsed, filter, active, screen, picking, hovered,
          pending, clicks>>

----------------------------------------------------------------------------
(* The rows. *)

OfProvider(p) == {s \in Sessions : Provider[s] = p}

\* _items
Items == UNION {history[seen[p]] \cap OfProvider(p) :
                  p \in {q \in Providers : seen[q] > 0}}

\* _sessions
Listed == Items \cup added

\* sessionDateSection, with one section for all dates; a session that is not
\* in the items yet comes last.
Section(items, s) ==
    IF s \notin items THEN "new"
    ELSE IF s \in local.archived THEN "archived"
    ELSE IF s \in local.pinned THEN "pinned" ELSE "dated"

\* The sessions of S by repository and time.
InOrder(S) == SelectSeq(Order, LAMBDA s : s \in S)

\* calculateSessionSections for the sessions of one workspace that match.
Entries(w) ==
    LET items == Items
        visible == {s \in items \cup added :
                      Home[s] = w /\ (filter = "text" => s \in Matching)}
        Of(sec) == InOrder({s \in visible : Section(items, s) = sec})
    IN Of("pinned") \o Of("dated") \o Of("archived") \o Of("new")

Row(kind, x) == [kind |-> kind, of |-> x]

RowsOf(w) ==
    LET entries == Entries(w) IN
    IF entries = <<>> THEN <<>>
    ELSE <<Row("section", w)>> \o
         (IF w \in collapsed THEN <<>>
          ELSE [i \in DOMAIN entries |-> Row("session", entries[i])])

\* The rows of the workspaces, one after the other.
Joined(f) ==
    LET upTo[i \in 0..Len(WorkspaceOrder)] ==
          IF i = 0 THEN <<>> ELSE upTo[i - 1] \o f[WorkspaceOrder[i]]
    IN upTo[Len(WorkspaceOrder)]

Rows == Joined([w \in Workspaces |-> RowsOf(w)])

OnScreen == {r.of : r \in {rows[i] : i \in {j \in DOMAIN rows : rows[j].kind = "session"}}}

IndexOf(s) == IF s \in OnScreen THEN CHOOSE i \in DOMAIN rows : rows[i] = Row("session", s)
                                ELSE 0

\* The keyboard position goes to the active session, or to the first row.
Position == IF active \in OnScreen THEN IndexOf(active)
            ELSE IF rows = <<>> THEN 0 ELSE 1

\* A row that is gone takes the pointer with it, without a mouseleave.
updateRows ==
    /\ rows' = Rows'
    /\ cursor' = Position'
    /\ mouse' = IF mouse \in OnScreen' THEN mouse ELSE None

\* The pane's listener of the catalog: a hover defers the update.
catalogChanged ==
    IF hovered # None THEN pending' = TRUE /\ UNCHANGED screen
                      ELSE updateRows /\ UNCHANGED pending

----------------------------------------------------------------------------
(* SessionCatalogService. *)

Request(scope, all) ==
    [serial |-> serial + 1, scope |-> scope, all |-> all, from |-> Len(history)]

View == <<collapsed, filter, active, screen, picking, hovered, pending>>

\* The timer of five seconds; also the start of the window.
refresh ==
    /\ serial < MaxRefresh
    /\ serial' = serial + 1
    /\ latestAll' = serial + 1
    /\ requests' = requests \cup {Request(Providers, TRUE)}
    /\ UNCHANGED <<history, seen, added, latest, marks, View, clicks>>

refreshProvider(p) ==
    /\ serial < MaxRefresh
    /\ serial' = serial + 1
    /\ latest' = [latest EXCEPT ![p] = serial + 1]
    /\ requests' = requests \cup {Request({p}, FALSE)}
    /\ UNCHANGED <<history, seen, added, latestAll, marks, View, clicks>>

\* Mutant: refreshes of one provider do not outdate those of all.
BugNewest(r) ==
    IF r.all THEN latestAll = r.serial
               ELSE (\A p \in r.scope : latest[p] = r.serial) /\ latestAll <= r.serial

\* Neither a later refresh of the same scope nor one that overlaps it.
Newest(r) ==
    IF r.all
      THEN latestAll = r.serial /\ \A p \in Providers : latest[p] <= r.serial
      ELSE (\A p \in r.scope : latest[p] = r.serial) /\ latestAll <= r.serial

\* The new items replace those of the scope; a session that was only added
\* is forgotten, whatever the scope.
apply(scope, rev) ==
    /\ seen' = [p \in Providers |-> IF p \in scope THEN rev ELSE seen[p]]
    /\ added' = {}
    /\ IF Items' # Items \/ Listed' # Listed
         THEN catalogChanged ELSE UNCHANGED <<screen, pending>>

\* The list arrives as it was at some moment since the request.
RefreshDone(r) ==
    /\ r \in requests
    /\ requests' = requests \ {r}
    /\ UNCHANGED <<history, serial, latestAll, latest, marks, collapsed, filter,
                   active, picking, hovered, clicks>>
    /\ IF Newest(r) THEN \E rev \in r.from..Len(history) : apply(r.scope, rev)
       ELSE UNCHANGED <<seen, added, screen, pending>>

RefreshFails(r) ==
    /\ r \in requests
    /\ requests' = requests \ {r}
    /\ UNCHANGED <<history, seen, added, serial, latestAll, latest, marks, View, clicks>>

\* The server learns of a new session or drops one.
ServerChanges(s) ==
    /\ Len(history) < MaxRev
    /\ LET now == history[Len(history)]
       IN history' = Append(history, IF s \in now THEN now \ {s} ELSE now \cup {s})
    /\ UNCHANGED <<seen, added, serial, latestAll, latest, requests, marks, View, clicks>>

Click == clicks < MaxClicks /\ clicks' = clicks + 1

\* A session has been created: add, then active.select.
SessionCreated(s) ==
    /\ Click
    /\ s \notin Listed /\ s # active
    /\ added' = added \cup {s}
    /\ active' = s
    /\ pending' = (pending \/ hovered # None)
    /\ UNCHANGED <<history, seen, serial, latestAll, latest, requests, marks,
                   collapsed, filter, picking, hovered>>
    /\ updateRows

\* Mutant: the read marks are left out of what is stored.
BugLocalStateChanged(state) ==
    /\ local' = state
    /\ stored' = [state EXCEPT !.unread = stored.unread]
    /\ refused' = FALSE

\* localStateChanged: the write to the storage may be refused.
localStateChanged(state) ==
    /\ local' = state
    /\ \/ stored' = state /\ refused' = FALSE
       \/ stored' = stored /\ refused' = TRUE

toggle(set, s) == IF s \in set THEN set \ {s} ELSE set \cup {s}

----------------------------------------------------------------------------
(* Pointer and keyboard on the rows. *)

\* Opening a row: it is marked read, which may change the catalog, then made
\* active, which redraws the rows unless it was active before; then the
\* keyboard position is at the row pressed.
select(s, at) ==
    /\ active' = s
    /\ IF s \in local.unread
         THEN localStateChanged([local EXCEPT !.unread = @ \ {s}])
         ELSE UNCHANGED marks
    /\ pending' = (pending \/ (s \in local.unread /\ hovered # None))
    /\ IF s # active \/ (s \in local.unread /\ hovered = None)
         THEN updateRows
         ELSE cursor' = at /\ UNCHANGED <<rows, mouse>>

\* Pressing the pointer on a row closes the menu before the click arrives.
handleSelection(s, modifier) ==
    /\ Click
    /\ menu = None /\ s \in OnScreen
    /\ UNCHANGED <<catalog, collapsed, filter, menu, hovered>>
    /\ CASE modifier = "shift" /\ anchor > 0 ->
              /\ selected' = {t \in OnScreen :
                               \/ anchor <= IndexOf(t) /\ IndexOf(t) <= IndexOf(s)
                               \/ IndexOf(s) <= IndexOf(t) /\ IndexOf(t) <= anchor}
              /\ UNCHANGED <<marks, active, anchor, pending>>
              /\ updateRows
         [] modifier = "ctrl" ->
              /\ selected' = toggle(selected, s)
              /\ anchor' = IndexOf(s)
              /\ UNCHANGED <<marks, active, pending>>
              /\ updateRows
         [] OTHER ->
              /\ selected' = {s}
              /\ anchor' = IndexOf(s)
              /\ select(s, cursor)

\* Arrow keys, Home and End; moving onto a session opens it.
onKeyDown(i) ==
    /\ Click
    /\ menu = None
    /\ i \in DOMAIN rows /\ i \in {1, Len(rows), cursor - 1, cursor + 1}
    /\ UNCHANGED <<catalog, collapsed, filter, picking, hovered>>
    /\ IF rows[i].kind = "session"
         THEN select(rows[i].of, i)
         ELSE cursor' = i /\ UNCHANGED <<marks, active, rows, mouse, pending>>

MouseEnter(s) ==
    /\ Click
    /\ mouse = None /\ s \in OnScreen
    /\ mouse' = s
    /\ hovered' = s
    /\ UNCHANGED <<catalog, marks, collapsed, filter, active, rows, cursor, picking,
                   pending>>

\* Mutant: the end of a hover forgets the deferred update.
BugMouseLeave ==
    /\ mouse # None
    /\ hovered' = None /\ pending' = FALSE /\ mouse' = None
    /\ UNCHANGED <<catalog, marks, collapsed, filter, active, picking, rows, cursor,
                   clicks>>

\* The end of a hover draws what it deferred.
MouseLeave ==
    /\ mouse # None
    /\ hovered' = None
    /\ pending' = FALSE
    /\ mouse' = None
    /\ UNCHANGED <<catalog, marks, collapsed, filter, active, picking, clicks>>
    /\ IF pending THEN rows' = Rows' /\ cursor' = Position'
                  ELSE UNCHANGED <<rows, cursor>>

\* The list scrolls the row away from under the pointer.
ScrolledAway ==
    /\ Click
    /\ mouse # None
    /\ mouse' = None
    /\ UNCHANGED <<catalog, marks, collapsed, filter, active, rows, cursor, picking,
                   hovered, pending>>

\* Mutant: the timer, too, waits for the end of the hover.
BugRedraw ==
    /\ hovered = None
    /\ UNCHANGED <<catalog, marks, collapsed, filter, active, picking, hovered,
                   pending, clicks>>
    /\ updateRows

\* The second timer, a change of the workspaces, of the status registry or of
\* the width: the rows are drawn, hover or not, and a deferred update stays.
Redraw ==
    /\ UNCHANGED <<catalog, marks, collapsed, filter, active, picking, hovered,
                   pending, clicks>>
    /\ updateRows

\* zaw.session.new
clear ==
    /\ Click
    /\ active # None
    /\ active' = None
    /\ UNCHANGED <<catalog, marks, collapsed, filter, picking, hovered, pending>>
    /\ updateRows

toggleSection(w) ==
    /\ Click
    /\ Row("section", w) \in Range(rows)
    /\ collapsed' = toggle(collapsed, w)
    /\ UNCHANGED <<catalog, marks, filter, active, picking, hovered, pending>>
    /\ updateRows

\* The search field opens without a redraw, and closing it drops its text.
toggleFilter ==
    /\ Click
    /\ filter' = IF filter = "hidden" THEN "empty" ELSE "hidden"
    /\ UNCHANGED <<catalog, marks, collapsed, active, picking, hovered, pending>>
    /\ IF filter = "hidden" THEN UNCHANGED screen ELSE updateRows

TypeFilter ==
    /\ Click
    /\ filter # "hidden"
    /\ filter' = IF filter = "text" THEN "empty" ELSE "text"
    /\ UNCHANGED <<catalog, marks, collapsed, active, picking, hovered, pending>>
    /\ updateRows

----------------------------------------------------------------------------
(* The commands of rows and menus. *)

Commands == {"pinned", "archived", "unread"}

\* Opened with the mouse, the menu selects its row first; opened with the
\* keyboard it does not.
showContextMenu(s, byMouse) ==
    /\ Click
    /\ s \in OnScreen
    /\ menu' = s
    /\ UNCHANGED <<catalog, marks, collapsed, filter, active, anchor, hovered,
                   pending>>
    /\ IF byMouse /\ s \notin selected
         THEN selected' = {s} /\ updateRows
         ELSE UNCHANGED <<selected, screen>>

closeContextMenu ==
    /\ menu # None
    /\ menu' = None
    /\ UNCHANGED <<catalog, marks, collapsed, filter, active, screen, selected,
                   anchor, hovered, pending, clicks>>

\* Mutant: everything selected, on screen or not.
BugActionContext(s) == IF selected # {} THEN selected ELSE {s}

\* The selected rows on screen, or the session itself when none is.
actionContext(s) == IF selected \cap OnScreen # {} THEN selected \cap OnScreen ELSE {s}

\* togglePinned, toggleArchived; markRead is passed the state the session is in.
Commanded(cmd, s, targets) ==
    CASE cmd = "unread" -> [local EXCEPT !.unread =
                              IF s \in @ THEN @ \cup targets ELSE @ \ targets]
      [] OTHER -> [local EXCEPT ![cmd] = (@ \ targets) \cup (targets \ @)]

runSessionAction(cmd, s) ==
    /\ Click
    /\ IF menu = None THEN s \in OnScreen ELSE s = menu
    /\ menu' = None
    /\ UNCHANGED <<catalog, collapsed, filter, active, selected, anchor, hovered>>
    /\ LET state == Commanded(cmd, s, actionContext(s))
       IN IF state = local
            THEN UNCHANGED <<marks, screen, pending>>
            ELSE localStateChanged(state) /\ catalogChanged

\* The window is loaded anew: marks and sections come back from the storage.
Restart ==
    /\ Click
    /\ seen' = [p \in Providers |-> 0] /\ added' = {}
    /\ latestAll' = 0 /\ latest' = [p \in Providers |-> 0] /\ requests' = {}
    /\ local' = stored /\ refused' = FALSE
    /\ filter' = "hidden" /\ active' = None
    /\ selected' = {} /\ anchor' = 0 /\ mouse' = None /\ hovered' = None
    /\ pending' = FALSE /\ menu' = None
    /\ collapsed' \in SUBSET Workspaces  \* the storage may have refused the latest
    /\ rows' = Rows' /\ cursor' = Position'
    /\ UNCHANGED <<history, serial, stored>>

----------------------------------------------------------------------------

Blank == [archived |-> {}, pinned |-> {}, unread |-> {}]

Init ==
    /\ history \in {<<s>> : s \in SUBSET Sessions}
    /\ seen = [p \in Providers |-> 0] /\ added = {}
    /\ serial = 0 /\ latestAll = 0 /\ latest = [p \in Providers |-> 0]
    /\ requests = {}
    /\ stored \in [archived : SUBSET Sessions, pinned : SUBSET Sessions,
                   unread : SUBSET Sessions]
    /\ local = stored /\ refused = FALSE
    /\ collapsed \in SUBSET Workspaces
    /\ filter = "hidden" /\ active = None
    /\ rows = Rows /\ cursor = Position /\ selected = {} /\ anchor = 0
    /\ mouse = None /\ hovered = None /\ pending = FALSE /\ menu = None
    /\ clicks = 0

Answers == \E r \in requests : RefreshDone(r) \/ RefreshFails(r)

UserActs ==
    \/ \E s \in Sessions :
         \/ \E modifier \in {"none", "ctrl", "shift"} : handleSelection(s, modifier)
         \/ MouseEnter(s)
         \/ \E byMouse \in BOOLEAN : showContextMenu(s, byMouse)
         \/ \E cmd \in Commands : runSessionAction(cmd, s)
         \/ SessionCreated(s)
    \/ \E i \in 1..(Len(rows) + 1) : onKeyDown(i)
    \/ \E w \in Workspaces : toggleSection(w)
    \/ MouseLeave \/ ScrolledAway \/ clear \/ toggleFilter \/ TypeFilter
    \/ closeContextMenu \/ Restart

Next ==
    \/ UserActs \/ Answers \/ Redraw \/ refresh
    \/ \E p \in Providers : refreshProvider(p)
    \/ \E s \in Sessions : ServerChanges(s)

\* The second timer draws the rows once a minute at least.
Fairness == WF_vars(Redraw)

Spec == Init /\ [][Next]_vars /\ Fairness

----------------------------------------------------------------------------

TypeOK ==
    /\ seen \in [Providers -> 0..Len(history)]
    /\ added \subseteq Sessions /\ Listed \subseteq Sessions
    /\ serial \in 0..MaxRefresh /\ latestAll \in 0..serial
    /\ latest \in [Providers -> 0..serial]
    /\ local \in [archived : SUBSET Sessions, pinned : SUBSET Sessions,
                  unread : SUBSET Sessions]
    /\ cursor \in 0..Len(rows)
    /\ {menu, mouse, hovered, active} \subseteq Sessions \cup {None}
    /\ selected \subseteq Sessions

(* Unless a hover is deferring it, the rows on screen are those of the     *)
(* catalog, the marks, the sections and the filter, in their order: no     *)
(* path changes one of these without drawing, and a hover that ends leaves *)
(* nothing undrawn.                                                        *)
RowsMirror == rows = Rows \/ (hovered # None /\ pending)

(* A hover defers the rows but does not freeze them: they catch up even    *)
(* when the hover never ends, because its row was removed or scrolled away *)
(* from under the pointer and no mouseleave came (hoveredSessionKey).      *)
CatchesUp == []<>(rows = Rows)

(* A command marks only sessions that are on screen, or the one whose menu *)
(* it was chosen from: what was selected before a refresh, a filter or a   *)
(* collapsed section took it away is left alone (actionContext).           *)
MarksOnScreen ==
    [][\A s \in Sessions :
         (\E c \in Commands : (s \in local'[c]) # (s \in local[c]))
           => s \in OnScreen \cup {menu} \/ Restart]_local

(* Pins, archive and read marks are in the storage whichever path changed  *)
(* them, unless the storage refused: a restart loses none of them, and no  *)
(* refresh that drops a session takes its marks along.                     *)
MarksStored == ~refused => stored = local

\* The revision that the newest refresh of a provider returns at least.
FloorOf(p) ==
    LET newest == {r \in requests : p \in r.scope /\ Newest(r)}
    IN IF newest = {} THEN seen[p] ELSE (CHOOSE r \in newest : TRUE).from

Fresh(p) == INSTANCE FreshView WITH
    source <- Len(history), floor <- FloorOf(p), shown <- seen[p]

(* The items of each provider implement FreshView: overlapping refreshes   *)
(* of all providers and of one never bring back an older list, in whatever *)
(* order they are answered or fail.  A restart begins anew.                *)
ItemsAreFresh ==
    /\ \A p \in Providers : Fresh(p)!Init
    /\ [][\A p \in Providers : [Fresh(p)!Next]_(Fresh(p)!vars) \/ Restart]_vars

==============================================================================
