---------------------------- MODULE ChatMirrorProofs ----------------------------
(***************************************************************************)
(* Of ChatProjection, for every number of turns, calls, chunks, messages   *)
(* and lost connections: a window that has received everything shows what  *)
(* the host has.  A message that is on its way leads from the chat it was  *)
(* sent for to the chat of the next one (WayGood), and a window that has   *)
(* missed nothing shows the chat it has seen (SeenMirrored).               *)
(***************************************************************************)
EXTENDS AgentHostProofs, FiniteSetTheorems

\* The turns that are about to start.
Awaited(u, f) == {u[k].turn : k \in {j \in DOMAIN u : u[j].type = "turnStarted"}}
           \cup {f[k].msg.turn : k \in {j \in DOMAIN f : f[j].msg.type = "turnStarted"}}

\* What rows show of a chat c: the turn that is worked on, with P about to start ...
Working(n, c, P) == n = c.active.id \/ (c.active.id = 0 /\ n \in P)

\* ... the messages of the user ...
Users(rows) == {rows[i].turn : i \in {j \in DOMAIN rows : rows[j].kind = "user"}}
Asked(rows, c, P) == Users(rows) \subseteq Ids(c) \cup P /\ Ids(c) \subseteq Users(rows)

\* ... the text of every turn ...
Told(rows, c) ==
  /\ \A t \in TurnSet(c) : TextOfRows(rows, t.id) = TextOfTurn(t)
  /\ Texted(rows) \subseteq Ids(c)

\* ... in segments up to g, one below the other ...
Layered(rows, t, g) ==
  \A i \in DOMAIN rows : rows[i].kind = "agent" /\ rows[i].turn = t =>
     /\ rows[i].segment <= g
     /\ \A j \in DOMAIN rows : i < j /\ rows[j].kind = "agent" /\ rows[j].turn = t =>
           rows[i].segment < rows[j].segment

\* ... an error for every turn that failed ...
ErrorsOf(rows) == {i \in DOMAIN rows : rows[i].kind = "error"}
FailedOf(turns) == {i \in DOMAIN turns : turns[i].failed}
Failures(rows, c) == Cardinality(ErrorsOf(rows)) = Cardinality(FailedOf(c.past))

\* ... and one card for a call, which says what the part of the call says.
Visible(p, perm) ==
  /\ p.status \notin {"streaming", "cancelled"}
  /\ p.tool = perm => p.status = "pending-confirmation"
CardFor(p) ==
  IF p.status = "pending-confirmation"
  THEN Card("approval", p.tool, "pending",
            toolInvocationDetail(p.input, "running", ""), toolCallSummary(p.input))
  ELSE Card("tool", p.tool, p.status,
            IF p.status \in Finished THEN toolResultDetail(p.status)
            ELSE toolInvocationDetail(p.input, IF p.input = "" THEN "" ELSE "running", ""),
            toolCallSummary(p.input))
\* The parts of calls.
Tools(c) == UNION {{t.parts[i] : i \in {j \in DOMAIN t.parts : t.parts[j].kind = "tool"}} : t \in TurnSet(c)}
OneCard(rows) ==
  \A i, j \in DOMAIN rows : IsCard(rows[i]) /\ IsCard(rows[j]) /\ rows[i].tool = rows[j].tool => i = j
Known(rows, c) == \A k \in Calls(rows) : \E p \in Tools(c) : p.tool = k
Shown(rows, c, perm) ==
  \A p \in Tools(c) : Visible(p, perm) => \E j \in DOMAIN rows : rows[j] = CardFor(p)
Plain(rows, c) ==
  \A p \in Tools(c) : \A j \in DOMAIN rows :
     p.status = "streaming" /\ IsCard(rows[j]) /\ rows[j].tool = p.tool => rows[j].summary = ""
Carded(rows, c, perm) == OneCard(rows) /\ Known(rows, c) /\ Shown(rows, c, perm) /\ Plain(rows, c)

\* What rows, turn and segment of a window that follows say of the chat c it has
\* seen, when the turns P are about to start and perm is the call of the request.
Mirror(v, c, P, perm) ==
  /\ Working(v.turn, c, P) /\ Asked(v.rows, c, P) /\ Told(v.rows, c)
  /\ Layered(v.rows, v.proj, v.segment) /\ Failures(v.rows, c) /\ Carded(v.rows, c, perm)

\* The chat the window has seen, when it misses nothing that was sent before.
Seen == IF flight = << >> THEN chat ELSE flight[1].was
InStep == /\ subscribed /\ ~blurred
          /\ flight # << >> => ~flight[1].late /\ flight[1].msg.type # "snapshot"

\* Every message leads from the chat it was made from to the next one.
Following(f, c, k) == IF k = Len(f) THEN c ELSE f[k + 1].was
WayGood == \A k \in DOMAIN flight : ~flight[k].late =>
              Applied(flight[k].was, flight[k].msg) = Following(flight, chat, k)

\* While nothing was missed the window shows the chat it has seen.
SeenMirrored == InStep => Mirror(view, Seen, Awaited(uplink, flight), Permission)
\* Both.
MirrorInv == WayGood /\ SeenMirrored

-----------------------------------------------------------------------------
\* The text a row has for a turn.
TextAt(r, id) == IF r.kind = "agent" /\ r.turn = id THEN r.text ELSE << >>
RowTexts(rows, id) == [i \in DOMAIN rows |-> TextAt(rows[i], id)]

\* The text of a turn in the rows is the text of its rows, one after the other ...
LEMMA RowTextsAre ==
  ASSUME NEW rows \in Seq(RowT), NEW id
  PROVE  /\ RowTexts(rows, id) \in Seq(Seq(Nat)) /\ Len(RowTexts(rows, id)) = Len(rows)
         /\ DOMAIN rows = 1..Len(rows) /\ Len(rows) \in Nat
         /\ \A i \in 1..Len(rows) : RowTexts(rows, id)[i] = TextAt(rows[i], id)
         /\ TextOfRows(rows, id) = FlattenSeq(RowTexts(rows, id))
<1>1. PICK n \in Nat : n = Len(rows) /\ DOMAIN rows = 1..n
  BY LenProperties
<1>2. ASSUME NEW i \in 1..n PROVE TextAt(rows[i], id) \in Seq(Nat)
  <2>1. rows[i] \in RowT
    BY <1>1, ElementOfSeq
  <2>2. rows[i].text \in Seq(Nat) /\ << >> \in Seq(Nat)
    BY <2>1, None DEF RowT
  <2> QED BY <2>2 DEF TextAt
<1>3. RowTexts(rows, id) = [i \in 1..n |-> TextAt(rows[i], id)]
  BY <1>1 DEF RowTexts
<1>4. RowTexts(rows, id) \in [1..n -> Seq(Nat)]
  BY <1>2, <1>3
<1>5. RowTexts(rows, id) \in Seq(Seq(Nat)) /\ Len(RowTexts(rows, id)) = n
  BY <1>4, FcnSeq
<1>6. TextOfRows(rows, id) = FlattenSeq(RowTexts(rows, id))
  BY DEF TextOfRows, RowTexts, TextAt
<1> QED BY <1>1, <1>3, <1>5, <1>6

\* Two sequences with the same elements.
LEMMA SameSeq ==
  ASSUME NEW X, NEW s \in Seq(X), NEW t \in Seq(X), Len(s) = Len(t), \A i \in 1..Len(s) : s[i] = t[i]
  PROVE  s = t
  BY SeqEqual

\* ... the same when the text of every row is ...
LEMMA TextSame ==
  ASSUME NEW rows \in Seq(RowT), NEW q \in Seq(RowT), NEW id, DOMAIN q = DOMAIN rows,
         \A i \in DOMAIN rows : TextAt(q[i], id) = TextAt(rows[i], id)
  PROVE  TextOfRows(q, id) = TextOfRows(rows, id)
  <1>1. RowTexts(q, id) = RowTexts(rows, id)
    BY DEF RowTexts
  <1> QED BY <1>1, RowTextsAre

\* ... longer by the text of a row put at the end ...
LEMMA TextAdded ==
  ASSUME NEW rows \in Seq(RowT), NEW x \in RowT, NEW id
  PROVE  TextOfRows(Append(rows, x), id) = TextOfRows(rows, id) \o TextAt(x, id)
<1>1. PICK q \in Seq(RowT) : q = Append(rows, x) /\ Len(q) = Len(rows) + 1
  BY AppendProperties
<1>2. PICK e \in Seq(Nat) : e = TextAt(x, id)
  BY None DEF TextAt, RowT
<1>3. PICK s \in Seq(Seq(Nat)) : s = RowTexts(rows, id) /\ Len(s) = Len(rows)
  BY RowTextsAre
<1>4. PICK u \in Seq(Seq(Nat)) : u = RowTexts(q, id) /\ Len(u) = Len(rows) + 1
  BY <1>1, RowTextsAre
<1>5. PICK n \in Nat : n = Len(rows)
  BY LenProperties
<1>a. PICK w \in Seq(Seq(Nat)) : w = Append(s, e) /\ Len(w) = Len(s) + 1
  BY AppendProperties
<1>b. w[Len(s) + 1] = e /\ \A i \in 1..Len(s) : w[i] = s[i]
  BY <1>a, AppendProperties
<1>6. /\ w = Append(s, e) /\ Len(w) = n + 1 /\ w[n + 1] = e
      /\ \A i \in 1..n : w[i] = s[i]
  BY <1>3, <1>5, <1>a, <1>b
<1>7. ASSUME NEW i \in 1..n+1 PROVE u[i] = w[i]
  <2>1. u[i] = TextAt(q[i], id)
    BY <1>1, <1>4, <1>5, RowTextsAre
  <2>2. CASE i \in 1..n
    <3>1. q[i] = rows[i]
      BY <1>1, <1>5, <2>2, AppendProperties
    <3>2. s[i] = TextAt(rows[i], id)
      BY <1>3, <1>5, <2>2, RowTextsAre
    <3> QED BY <1>6, <2>1, <2>2, <3>1, <3>2
  <2>3. CASE i = n + 1
    <3>1. q[i] = x
      BY <1>1, <1>5, <2>3, AppendProperties
    <3> QED BY <1>2, <1>6, <2>1, <2>3, <3>1
  <2> QED BY <2>2, <2>3
<1>8. u = w
  BY <1>4, <1>5, <1>6, <1>7, SameSeq
<1>9. FlattenSeq(w) = FlattenSeq(s) \o e
  BY <1>6, FlattenAppend
<1> QED BY <1>1, <1>2, <1>3, <1>4, <1>8, <1>9, RowTextsAre

\* A row without text for the turn adds nothing.
LEMMA TextKept ==
  ASSUME NEW rows \in Seq(RowT), NEW x \in RowT, NEW id, TextAt(x, id) = << >>
  PROVE  TextOfRows(Append(rows, x), id) = TextOfRows(rows, id)
<1>1. TextOfRows(rows, id) \in Seq(Nat)
  BY RowTextsAre, FlattenType
<1> QED BY <1>1, TextAdded, ConcatEmptySeq

\* ... none when no row of text is of the turn ...
LEMMA TextNone ==
  ASSUME NEW rows \in Seq(RowT), NEW id, \A i \in DOMAIN rows : rows[i].kind = "agent" => rows[i].turn # id
  PROVE  TextOfRows(rows, id) = << >>
<1>1. ASSUME NEW i \in 1..Len(rows) PROVE RowTexts(rows, id)[i] = << >>
  <2>1. RowTexts(rows, id)[i] = TextAt(rows[i], id) /\ i \in DOMAIN rows
    BY RowTextsAre
  <2> QED BY <2>1 DEF TextAt
<1>2. PICK s \in Seq(Seq(Nat)) : s = RowTexts(rows, id) /\ \A i \in 1..Len(s) : s[i] = << >>
  BY <1>1, RowTextsAre
<1> QED BY <1>2, RowTextsAre, FlattenNone

\* The last row of the turn's text grows.
LastGrows(q, rows, k, x, id, e) ==
  /\ PutAt(q, rows, k, x) /\ x.kind = "agent" /\ x.turn = id
  /\ rows[k].kind = "agent" /\ rows[k].turn = id /\ x.text = rows[k].text \o e
  /\ \A j \in DOMAIN rows : k < j /\ rows[j].kind = "agent" => rows[j].turn # id

\* ... and longer by what its last row grows by.
LEMMA TextGrows ==
  ASSUME NEW rows \in Seq(RowT), NEW q \in Seq(RowT), NEW e \in Seq(Nat),
         NEW id, NEW k, NEW x, LastGrows(q, rows, k, x, id, e)
  PROVE  TextOfRows(q, id) = TextOfRows(rows, id) \o e
<1>0. /\ PutAt(q, rows, k, x) /\ x.kind = "agent" /\ x.turn = id
      /\ rows[k].kind = "agent" /\ rows[k].turn = id /\ x.text = rows[k].text \o e
      /\ \A j \in DOMAIN rows : k < j /\ rows[j].kind = "agent" => rows[j].turn # id
  BY DEF LastGrows
<1>1. PICK s \in Seq(Seq(Nat)) : s = RowTexts(rows, id) /\ Len(s) = Len(rows)
  BY RowTextsAre
<1>2. PICK u \in Seq(Seq(Nat)) : u = RowTexts(q, id) /\ Len(u) = Len(q)
  BY RowTextsAre
<1>3. PICK n \in Nat : n = Len(rows) /\ DOMAIN rows = 1..n
  BY LenProperties
<1>4. Len(q) = n /\ DOMAIN q = 1..n /\ k \in 1..n /\ q[k] = x
  BY <1>0, <1>3, LenProperties DEF PutAt
<1>5. /\ \A i \in 1..n : s[i] = TextAt(rows[i], id) /\ u[i] = TextAt(q[i], id)
  BY <1>1, <1>2, <1>3, <1>4, RowTextsAre
<1>6. u[k] = s[k] \o e
  BY <1>0, <1>4, <1>5 DEF TextAt
<1>7. ASSUME NEW i \in 1..n, i # k PROVE u[i] = s[i]
  BY <1>0, <1>3, <1>5, <1>7 DEF PutAt
<1>8. Silent(s, k)
  <2>1. ASSUME NEW i \in k+1..n PROVE s[i] = << >>
    <3>1. i \in 1..n /\ k < i
      BY <1>4
    <3> QED BY <1>0, <1>3, <1>5, <3>1 DEF TextAt
  <2> QED BY <1>1, <1>3, <2>1 DEF Silent
<1>9. GrowsAt(Nat, s, u, k, e)
  BY <1>1, <1>2, <1>3, <1>4, <1>6, <1>7, <1>8 DEF GrowsAt
<1>10. FlattenSeq(u) = FlattenSeq(s) \o e
  BY <1>9, FlattenGrows
<1>11. TextOfRows(q, id) = FlattenSeq(u) /\ TextOfRows(rows, id) = FlattenSeq(s)
  BY <1>1, <1>2, RowTextsAre
<1> QED BY <1>10, <1>11

-----------------------------------------------------------------------------
PartTexts(t) == [i \in DOMAIN t.parts |-> t.parts[i].text]

\* The text of a turn in the chat is the text of its parts ...
LEMMA PartTextsAre ==
  ASSUME NEW t \in TurnT
  PROVE  \E n \in Nat : /\ n = Len(t.parts) /\ DOMAIN t.parts = 1..n
                        /\ PartTexts(t) \in Seq(Seq(Nat)) /\ Len(PartTexts(t)) = n
                        /\ \A i \in 1..n : PartTexts(t)[i] = t.parts[i].text
                        /\ TextOfTurn(t) = FlattenSeq(PartTexts(t))
<1>1. PICK n \in Nat : n = Len(t.parts) /\ DOMAIN t.parts = 1..n
  BY PartsOf
<1>2. \A i \in 1..n : t.parts[i] \in PartT
  BY <1>1, PartsOf
<1>3. \A i \in 1..n : t.parts[i].text \in Seq(Nat)
  BY <1>2 DEF PartT
<1>4. PartTexts(t) = [i \in 1..n |-> t.parts[i].text]
  BY <1>1 DEF PartTexts
<1>5. PartTexts(t) \in [1..n -> Seq(Nat)]
  BY <1>3, <1>4
<1>6. PartTexts(t) \in Seq(Seq(Nat)) /\ Len(PartTexts(t)) = n
  BY <1>5, FcnSeq
<1>7. TextOfTurn(t) = FlattenSeq(PartTexts(t))
  BY DEF TextOfTurn, PartTexts
<1> QED BY <1>1, <1>4, <1>6, <1>7

\* ... the same when the text of every part is ...
LEMMA TurnTextSame ==
  ASSUME NEW t \in TurnT, NEW r \in TurnT, DOMAIN r.parts = DOMAIN t.parts,
         \A i \in DOMAIN t.parts : r.parts[i].text = t.parts[i].text
  PROVE  TextOfTurn(r) = TextOfTurn(t)
<1>1. PartTexts(r) = PartTexts(t)
  BY DEF PartTexts
<1> QED BY <1>1, PartTextsAre

\* ... the same when a part without text joins them ...
LEMMA TurnTextAdds ==
  ASSUME NEW t \in TurnT, NEW r \in TurnT, NEW p \in PartT, AddedTo(r.parts, t.parts, p), p.text = << >>
  PROVE  TextOfTurn(r) = TextOfTurn(t)
<1>1. PICK n \in Nat : /\ DOMAIN t.parts = 1..n /\ DOMAIN r.parts = 1..n+1 /\ r.parts[n+1] = p
                       /\ \A i \in 1..n : r.parts[i] = t.parts[i]
  BY DEF AddedTo
<1>2. PICK s \in Seq(Seq(Nat)) : s = PartTexts(t) /\ TextOfTurn(t) = FlattenSeq(s)
                                 /\ DOMAIN s = 1..Len(s) /\ Len(s) \in Nat
  BY PartTextsAre, LenProperties
<1>3. PICK u \in Seq(Seq(Nat)) : u = PartTexts(r) /\ TextOfTurn(r) = FlattenSeq(u)
                                 /\ DOMAIN u = 1..Len(u) /\ Len(u) \in Nat
  BY PartTextsAre, LenProperties
<1>4. DOMAIN s = 1..n /\ DOMAIN u = 1..n+1
  BY <1>1, <1>2, <1>3 DEF PartTexts
<1>5. Len(s) = n /\ Len(u) = n + 1
  <2>1. PICK m \in Nat : m = n + 1
    OBVIOUS
  <2>2. PICK a \in Nat, b \in Nat : a = Len(s) /\ b = Len(u)
    BY <1>2, <1>3
  <2>3. 1..a = 1..n /\ 1..b = 1..m
    BY <1>2, <1>3, <1>4, <2>1, <2>2
  <2>4. a = n /\ b = m
    BY <2>3
  <2> QED BY <2>1, <2>2, <2>4
<1>6. /\ \A i \in 1..n : u[i] = s[i]
      /\ u[n+1] = << >>
  <2>1. \A i \in 1..n+1 : u[i] = r.parts[i].text
    BY <1>1, <1>3 DEF PartTexts
  <2>2. \A i \in 1..n : s[i] = t.parts[i].text
    BY <1>1, <1>2 DEF PartTexts
  <2>3. ASSUME NEW i \in 1..n PROVE u[i] = s[i]
    <3>1. i \in 1..n+1
      OBVIOUS
    <3> QED BY <1>1, <2>1, <2>2, <3>1
  <2>4. n + 1 \in 1..n+1
    OBVIOUS
  <2> QED BY <1>1, <2>1, <2>3, <2>4
<1>7. PICK e \in Seq(Nat) : e = << >>
  BY None
<1>8. PICK w \in Seq(Seq(Nat)) : w = Append(s, e) /\ Len(w) = Len(s) + 1
  BY AppendProperties
<1>9. w[Len(s) + 1] = e /\ \A i \in 1..Len(s) : w[i] = s[i]
  BY <1>8, AppendProperties
<1>10. ASSUME NEW i \in 1..n+1 PROVE u[i] = w[i]
  <2>1. i \in 1..n \/ i = n + 1
    OBVIOUS
  <2> QED BY <1>5, <1>6, <1>7, <1>9, <2>1
<1>11. u = w
  BY <1>5, <1>8, <1>10, SameSeq
<1>12. FlattenSeq(w) = FlattenSeq(s) \o e /\ FlattenSeq(s) \in Seq(Nat)
  BY <1>8, FlattenAppend, FlattenType
<1> QED BY <1>2, <1>3, <1>7, <1>11, <1>12, ConcatEmptySeq

\* The only part with text grows.
LEMMA TurnTextGrows ==
  ASSUME NEW t \in TurnT, NEW r \in TurnT, NEW e \in Seq(Nat), DOMAIN r.parts = DOMAIN t.parts,
         NEW k \in DOMAIN t.parts, r.parts[k].text = t.parts[k].text \o e,
         \A i \in DOMAIN t.parts : i # k => r.parts[i].text = t.parts[i].text /\ t.parts[i].text = << >>
  PROVE  TextOfTurn(r) = TextOfTurn(t) \o e
<1>1. PICK n \in Nat : /\ n = Len(t.parts) /\ DOMAIN t.parts = 1..n
                       /\ PartTexts(t) \in Seq(Seq(Nat)) /\ Len(PartTexts(t)) = n
                       /\ \A i \in 1..n : PartTexts(t)[i] = t.parts[i].text
                       /\ TextOfTurn(t) = FlattenSeq(PartTexts(t))
  BY PartTextsAre
<1>2. PICK s \in Seq(Seq(Nat)) : s = PartTexts(t)
  BY <1>1
<1>3. /\ PartTexts(r) \in Seq(Seq(Nat)) /\ Len(PartTexts(r)) = n
      /\ \A i \in 1..n : PartTexts(r)[i] = r.parts[i].text
      /\ TextOfTurn(r) = FlattenSeq(PartTexts(r))
  <2>1. PICK m \in Nat : /\ m = Len(r.parts) /\ DOMAIN r.parts = 1..m
                       /\ PartTexts(r) \in Seq(Seq(Nat)) /\ Len(PartTexts(r)) = m
                       /\ \A i \in 1..m : PartTexts(r)[i] = r.parts[i].text
                       /\ TextOfTurn(r) = FlattenSeq(PartTexts(r))
    BY PartTextsAre
  <2>2. m = n
    BY <1>1, <2>1
  <2> QED BY <2>1, <2>2
<1>4. PICK u \in Seq(Seq(Nat)) : u = PartTexts(r)
  BY <1>3
<1>5. k \in 1..n /\ u[k] = s[k] \o e
  BY <1>1, <1>2, <1>3, <1>4
<1>6. \A i \in 1..n : i # k => u[i] = s[i] /\ s[i] = << >>
  BY <1>1, <1>2, <1>3, <1>4
<1>7. Silent(s, k)
  <2>1. ASSUME NEW i \in k+1..n PROVE s[i] = << >>
    <3>1. i \in 1..n /\ i # k
      BY <1>5
    <3> QED BY <1>6, <3>1
  <2> QED BY <1>1, <1>2, <2>1 DEF Silent
<1>8. GrowsAt(Nat, s, u, k, e)
  BY <1>1, <1>2, <1>3, <1>4, <1>5, <1>6, <1>7 DEF GrowsAt
<1>9. FlattenSeq(u) = FlattenSeq(s) \o e
  BY <1>8, FlattenGrows
<1> QED BY <1>1, <1>2, <1>3, <1>4, <1>9

\* One sequence holds everything.
LEMMA FlattenOne ==
  ASSUME NEW X, NEW s \in Seq(Seq(X)), NEW k \in 1..Len(s), \A i \in 1..Len(s) : i # k => s[i] = << >>
  PROVE  FlattenSeq(s) = s[k]
<1>1. PICK n \in Nat : n = Len(s) /\ DOMAIN s = 1..n
  BY LenProperties
<1>2. PICK z \in [1..n -> Seq(X)] : \A i \in 1..n : z[i] = << >>
  <2>1. [i \in 1..n |-> << >>] \in [1..n -> Seq(X)]
    BY None
  <2> QED BY <2>1
<1>3. z \in Seq(Seq(X)) /\ Len(z) = n
  BY <1>2, FcnSeq
<1>4. FlattenSeq(z) = << >>
  BY <1>2, <1>3, FlattenNone
<1>5. PICK e \in Seq(X) : e = s[k]
  BY <1>1, ElementOfSeq
<1>6. s[k] = z[k] \o e
  BY <1>1, <1>2, <1>5, ConcatLeft
<1>7. Silent(z, k)
  <2>1. ASSUME NEW i \in k+1..n PROVE z[i] = << >>
    <3>1. i \in 1..n
      BY <1>1
    <3> QED BY <1>2, <3>1
  <2> QED BY <1>3, <2>1 DEF Silent
<1>8. \A i \in 1..n : i # k => s[i] = z[i]
  BY <1>1, <1>2
<1>9. GrowsAt(X, z, s, k, e)
  BY <1>1, <1>3, <1>6, <1>7, <1>8 DEF GrowsAt
<1>10. FlattenSeq(s) = FlattenSeq(z) \o e
  BY <1>9, FlattenGrows
<1> QED BY <1>4, <1>5, <1>10, ConcatLeft

\* The text of a turn is that of its one part of text, if it has one.
LEMMA TurnText ==
  ASSUME NEW t \in TurnT, NEW n, NEW p, NEW q, TurnGood(t, n, p, q)
  PROVE  /\ \A k \in DOMAIN t.parts : t.parts[k].kind = "text" => TextOfTurn(t) = t.parts[k].text
         /\ ~HasText(t) => TextOfTurn(t) = << >>
<1>1. PICK l \in Nat : /\ l = Len(t.parts) /\ DOMAIN t.parts = 1..l
                       /\ PartTexts(t) \in Seq(Seq(Nat)) /\ Len(PartTexts(t)) = l
                       /\ \A i \in 1..l : PartTexts(t)[i] = t.parts[i].text
                       /\ TextOfTurn(t) = FlattenSeq(PartTexts(t))
  BY PartTextsAre
<1>2. PICK s \in Seq(Seq(Nat)) : s = PartTexts(t)
  BY <1>1
<1>3. ASSUME NEW i \in 1..l PROVE t.parts[i].kind = "text" \/ s[i] = << >>
  <2>1. t.parts[i] \in PartT /\ PartGood(t.parts[i], t.id, n, p, q)
    BY <1>1, PartsOf DEF TurnGood
  <2>2. t.parts[i].kind \in {"text", "tool"}
    BY <2>1 DEF PartT
  <2> QED BY <1>1, <1>2, <2>1, <2>2 DEF PartGood
<1>4. ASSUME NEW k \in DOMAIN t.parts, t.parts[k].kind = "text" PROVE TextOfTurn(t) = t.parts[k].text
  <2>1. \A i \in 1..l : i # k => s[i] = << >>
    BY <1>1, <1>3, <1>4 DEF TurnGood, OneText
  <2>2. FlattenSeq(s) = s[k]
    BY <1>1, <1>2, <2>1, FlattenOne
  <2> QED BY <1>1, <1>2, <2>2
<1>5. ASSUME ~HasText(t) PROVE TextOfTurn(t) = << >>
  <2>1. \A i \in 1..Len(s) : s[i] = << >>
    BY <1>1, <1>2, <1>3, <1>5 DEF HasText
  <2> QED BY <1>1, <1>2, <2>1, FlattenNone
<1> QED BY <1>4, <1>5

-----------------------------------------------------------------------------
\* The active turn of c became r; the others stayed.
Turned(c, d, r) ==
  /\ c.active \in TurnSet(c) /\ r \in TurnSet(d) /\ r \in TurnT /\ r.id = c.active.id
  /\ \A x \in TurnSet(d) : x = r \/ (x \in TurnSet(c) /\ x.id # r.id)
  /\ \A x \in TurnSet(c) : x = c.active \/ (x \in TurnSet(d) /\ x.id # r.id)

\* The names of the turns of a chat.
LEMMA IdsAre ==
  ASSUME NEW c, NEW id
  PROVE  id \in Ids(c) <=> \E t \in TurnSet(c) : t.id = id
  BY DEF Ids

\* A turn that becomes another keeps the names of the turns.
LEMMA TurnedIds ==
  ASSUME NEW c, NEW d, NEW r, Turned(c, d, r)
  PROVE  Ids(d) = Ids(c)
<1>1. ASSUME NEW id \in Ids(d) PROVE id \in Ids(c)
  BY <1>1, IdsAre DEF Turned
<1>2. ASSUME NEW id \in Ids(c) PROVE id \in Ids(d)
  BY <1>2, IdsAre DEF Turned
<1> QED BY <1>1, <1>2

\* The active turn is a turn of the chat, and no past one.
LEMMA ActiveIn ==
  ASSUME NEW c \in ChatT, NEW m, NEW n, NEW p, NEW q, ChatGood(c, m, n, p, q), c.active.id # 0
  PROVE  /\ c.active \in TurnSet(c) /\ c.active \in TurnT /\ TurnGood(c.active, n, p, q)
         /\ \A i \in DOMAIN c.past : c.past[i] \in TurnSet(c) /\ c.past[i].id # c.active.id
<1>1. c.active \in TurnSet(c) /\ c.active \in TurnT
  BY ChatParts
<1>2. TurnGood(c.active, n, p, q)
  BY <1>1 DEF ChatGood
<1> QED BY <1>1, <1>2, ChatParts DEF ChatGood, Named

\* An action on the active turn makes one turn of the chat another ...
LEMMA MovesTurn ==
  ASSUME NEW c \in ChatT, NEW d \in ChatT, NEW a \in ActionT, NEW m, NEW n, NEW p, NEW q,
         ChatGood(c, m, n, p, q), c.active.id # 0, Moves0(c, d, a)
  PROVE  Turned(c, d, Reduced(c.active, a)) /\ d.past = c.past /\ d.active.id = c.active.id
<1>1. PICK r \in TurnT : r = Reduced(c.active, a) /\ r.id = c.active.id
  BY ActiveIn, ReducedKeeps
<1>2. d.past = c.past /\ d.active = r
  BY <1>1 DEF Moves0
<1>3. \A x : x \in TurnSet(d) <=> (\E i \in DOMAIN c.past : x = c.past[i]) \/ x = r
  BY <1>1, <1>2, ChatParts
<1>4. \A x : x \in TurnSet(c) <=> (\E i \in DOMAIN c.past : x = c.past[i]) \/ x = c.active
  BY ChatParts
<1>5. \A i \in DOMAIN c.past : c.past[i].id # r.id
  BY <1>1, ActiveIn
<1> QED BY <1>1, <1>2, <1>3, <1>4, <1>5 DEF Turned

\* ... so does its end, which puts it behind the past ones ...
LEMMA EndsTurn ==
  ASSUME NEW c \in ChatT, NEW d \in ChatT, NEW f \in BOOLEAN, NEW m, NEW n, NEW p, NEW q,
         ChatGood(c, m, n, p, q), c.active.id # 0, Ends0(c, d, f)
  PROVE  /\ Turned(c, d, Ended(c.active, f)) /\ d.active.id = 0
         /\ AddedTo(d.past, c.past, Ended(c.active, f)) /\ Ended(c.active, f).failed = f
<1>1. PICK r \in TurnT : r = Ended(c.active, f) /\ r.id = c.active.id /\ r.failed = f
  <2>1. c.active \in TurnT
    BY ChatParts
  <2> QED BY <2>1, EndedType, EndedIs DEF EndedTo
<1>2. d.past = Append(c.past, r) /\ d.active.id = 0 /\ c.past \in Seq(TurnT)
  BY <1>1, ChatParts DEF Ends0, NoTurn
<1>3. AddedTo(d.past, c.past, r)
  BY <1>2, AppendAdds
<1>4. PICK l \in Nat : /\ DOMAIN c.past = 1..l /\ DOMAIN d.past = 1..l+1 /\ d.past[l+1] = r
                       /\ \A i \in 1..l : d.past[i] = c.past[i]
  BY <1>3 DEF AddedTo
<1>5. \A i \in DOMAIN d.past : i \in 1..l \/ i = l + 1
  BY <1>4
<1>6. l + 1 \in DOMAIN d.past /\ \A i \in 1..l : i \in DOMAIN d.past
  BY <1>4
<1>7. \A x : x \in TurnSet(d) <=> \E i \in DOMAIN d.past : x = d.past[i]
  BY <1>2, ChatParts
<1>8. \A x : x \in TurnSet(d) <=> (\E i \in DOMAIN c.past : x = c.past[i]) \/ x = r
  BY <1>4, <1>5, <1>6, <1>7
<1>9. \A x : x \in TurnSet(c) <=> (\E i \in DOMAIN c.past : x = c.past[i]) \/ x = c.active
  BY ChatParts
<1>10. \A i \in DOMAIN c.past : c.past[i].id # r.id
  BY <1>1, ActiveIn
<1>11. c.active \in TurnSet(c) /\ r \in TurnSet(d)
  BY <1>8, <1>9
<1>12. \A x \in TurnSet(d) : x = r \/ (x \in TurnSet(c) /\ x.id # r.id)
  BY <1>8, <1>9, <1>10
<1>13. \A x \in TurnSet(c) : x = c.active \/ (x \in TurnSet(d) /\ x.id # r.id)
  BY <1>8, <1>9, <1>10
<1>14. Turned(c, d, r)
  BY <1>1, <1>11, <1>12, <1>13 DEF Turned
<1> QED BY <1>1, <1>2, <1>3, <1>14

\* ... and a start adds an empty one.
LEMMA StartsTurnIn ==
  ASSUME NEW c \in ChatT, NEW d \in ChatT, NEW t \in Nat, t # 0, c.active.id = 0, Starts0(c, d, t)
  PROVE  /\ d.past = c.past /\ d.active.id = t /\ d.active.parts = << >>
         /\ \A x : x \in TurnSet(d) <=> x \in TurnSet(c) \/ x = d.active
         /\ \A id : id \in Ids(d) <=> id \in Ids(c) \/ id = t
<1>1. d.past = c.past /\ d.active.id = t /\ d.active.parts = << >>
  BY StartFacts
<1>2. \A x : x \in TurnSet(d) <=> x \in TurnSet(c) \/ x = d.active
  BY <1>1, ChatParts
<1>3. ASSUME NEW id PROVE id \in Ids(d) <=> id \in Ids(c) \/ id = t
  BY <1>1, <1>2, IdsAre
<1> QED BY <1>1, <1>2, <1>3

-----
\* The parts of the calls, after each kind of change.
LEMMA ToolsAre ==
  ASSUME NEW c, NEW p
  PROVE  p \in Tools(c) <=> \E t \in TurnSet(c) : \E i \in DOMAIN t.parts : p = t.parts[i] /\ p.kind = "tool"
  BY DEF Tools

\* What a turn has of calls.
CallParts(t) == {t.parts[i] : i \in {j \in DOMAIN t.parts : t.parts[j].kind = "tool"}}
\* The parts of the calls of a turn and of a chat.
LEMMA CallPartsAre ==
  ASSUME NEW c
  PROVE  /\ \A t, p : p \in CallParts(t) <=> \E i \in DOMAIN t.parts : p = t.parts[i] /\ p.kind = "tool"
         /\ \A p : p \in Tools(c) <=> \E t \in TurnSet(c) : p \in CallParts(t)
<1>1. \A t, p : p \in CallParts(t) <=> \E i \in DOMAIN t.parts : p = t.parts[i] /\ p.kind = "tool"
  BY DEF CallParts
<1> QED BY <1>1, ToolsAre

\* The calls of the chat are the same when those of the active turn are ...
LEMMA TurnedTools ==
  ASSUME NEW c, NEW d, NEW r, Turned(c, d, r), CallParts(r) = CallParts(c.active)
  PROVE  Tools(d) = Tools(c)
<1>1. ASSUME NEW p \in Tools(d) PROVE p \in Tools(c)
  BY <1>1, CallPartsAre DEF Turned
<1>2. ASSUME NEW p \in Tools(c) PROVE p \in Tools(d)
  BY <1>2, CallPartsAre DEF Turned
<1> QED BY <1>1, <1>2

\* ... and when a turn starts.
LEMMA StartedTools ==
  ASSUME NEW c \in ChatT, NEW d \in ChatT, NEW t \in Nat, t # 0, c.active.id = 0, Starts0(c, d, t)
  PROVE  Tools(d) = Tools(c)
<1>1. CallParts(d.active) = {}
  BY StartsTurnIn DEF CallParts
<1>2. ASSUME NEW p PROVE p \in Tools(d) <=> p \in Tools(c)
  BY <1>1, StartsTurnIn, CallPartsAre
<1> QED BY <1>2

-----------------------------------------------------------------------------
\* One part more.
LEMMA CallsAdded ==
  ASSUME NEW r, NEW t, NEW p, AddedTo(r.parts, t.parts, p), NEW x
  PROVE  x \in CallParts(r) <=> x \in CallParts(t) \/ (x = p /\ p.kind = "tool")
<1>1. PICK l \in Nat : /\ DOMAIN t.parts = 1..l /\ DOMAIN r.parts = 1..l+1 /\ r.parts[l+1] = p
                       /\ \A i \in 1..l : r.parts[i] = t.parts[i]
  BY DEF AddedTo
<1>2. ASSUME x \in CallParts(r) PROVE x \in CallParts(t) \/ (x = p /\ p.kind = "tool")
  <2>1. PICK i \in 1..l+1 : x = r.parts[i] /\ x.kind = "tool"
    BY <1>1, <1>2 DEF CallParts
  <2>2. CASE i \in 1..l
    BY <1>1, <2>1, <2>2 DEF CallParts
  <2>3. CASE i = l + 1
    BY <1>1, <2>1, <2>3
  <2> QED BY <2>2, <2>3
<1>3. ASSUME x \in CallParts(t) PROVE x \in CallParts(r)
  <2>1. PICK i \in 1..l : x = t.parts[i] /\ x.kind = "tool"
    BY <1>1, <1>3 DEF CallParts
  <2>2. i \in DOMAIN r.parts /\ r.parts[i] = x
    BY <1>1, <2>1
  <2> QED BY <2>1, <2>2 DEF CallParts
<1>4. ASSUME x = p, p.kind = "tool" PROVE x \in CallParts(r)
  <2>1. l + 1 \in DOMAIN r.parts
    BY <1>1
  <2> QED BY <1>1, <1>4, <2>1 DEF CallParts
<1> QED BY <1>2, <1>3, <1>4

\* A message of text adds its text to the turn and changes no call ...
LEMMA TextReduced ==
  ASSUME NEW t \in TurnT, NEW a \in ActionT, a.type \in TextTypes, NEW n, NEW p, NEW q, TurnGood(t, n, p, q),
         a.type = "delta" => HasText(t), a.type # "delta" => a.text = << >>
  PROVE  /\ CallParts(Reduced(t, a)) = CallParts(t)
         /\ TextOfTurn(Reduced(t, a)) = TextOfTurn(t) \o a.text
<1>1. PICK r \in TurnT : r = Reduced(t, a)
  BY ReducedType
<1>2. ReducedTo(r, t, a)
  BY <1>1, ReducedIs
<1>3. a.text \in Seq(Nat) /\ TextOfTurn(t) \in Seq(Nat)
  BY PartTextsAre, FlattenType DEF ActionT
<1>4. CASE a.type = "responsePart"
  <2>1. AddedTo(r.parts, t.parts, TextPart)
    BY <1>2, <1>4, AppendAdds, PartTypes, PartsOf DEF ReducedTo
  <2>2. TextOfTurn(r) = TextOfTurn(t)
    BY <2>1, TurnTextAdds, PartTypes, PartFacts
  <2>6. ASSUME NEW x PROVE x \in CallParts(r) <=> x \in CallParts(t)
    BY <2>1, CallsAdded, PartFacts
  <2>7. TextOfTurn(t) \o a.text = TextOfTurn(t)
    BY <1>3, <1>4, ConcatEmptySeq
  <2> QED BY <1>1, <2>2, <2>6, <2>7
<1>5. CASE a.type = "delta"
  <2>1. DOMAIN r.parts = DOMAIN t.parts /\ \A i \in DOMAIN t.parts : r.parts[i] = Changed(t.parts[i], a)
    BY <1>2, <1>5 DEF ReducedTo, Adds
  <2>2. ASSUME NEW i \in DOMAIN t.parts
        PROVE  /\ t.parts[i].kind = "tool" => r.parts[i] = t.parts[i]
               /\ t.parts[i].kind = "text" => r.parts[i].kind = "text" /\ r.parts[i].text = t.parts[i].text \o a.text
               /\ t.parts[i].kind \in {"text", "tool"}
               /\ t.parts[i].kind = "tool" => t.parts[i].text = << >>
    <3>1. t.parts[i] \in PartT /\ PartGood(t.parts[i], t.id, n, p, q)
      BY PartsOf DEF TurnGood
    <3>2. ChangedTo(r.parts[i], t.parts[i], a)
      BY <2>1, <3>1, ChangedIs
    <3> QED BY <1>5, <3>1, <3>2 DEF ChangedTo, PartGood, PartT
  <2>3. ASSUME NEW x PROVE x \in CallParts(r) <=> x \in CallParts(t)
    <3>1. ASSUME NEW i \in DOMAIN t.parts
          PROVE  /\ r.parts[i].kind = "tool" <=> t.parts[i].kind = "tool"
                 /\ t.parts[i].kind = "tool" => r.parts[i] = t.parts[i]
      BY <2>2
    <3> QED BY <2>1, <3>1 DEF CallParts
  <2>4. PICK k \in DOMAIN t.parts : t.parts[k].kind = "text"
    BY <1>5 DEF HasText
  <2>5. \A i \in DOMAIN t.parts : i # k => t.parts[i].kind = "tool"
    BY <2>2, <2>4 DEF TurnGood, OneText
  <2>6. TextOfTurn(r) = TextOfTurn(t) \o a.text
    BY <1>3, <2>1, <2>2, <2>4, <2>5, TurnTextGrows
  <2> QED BY <1>1, <2>3, <2>6
<1> QED BY <1>4, <1>5 DEF TextTypes

\* ... the start of a call adds the call and no text ...
LEMMA CallReduced ==
  ASSUME NEW t \in TurnT, NEW a \in ActionT, a.type = "toolCallStart"
  PROVE  /\ CallParts(Reduced(t, a)) = CallParts(t) \cup {ToolPart(a.tool)}
         /\ TextOfTurn(Reduced(t, a)) = TextOfTurn(t)
<1>1. PICK r \in TurnT : r = Reduced(t, a)
  BY ReducedType
<1>2. ReducedTo(r, t, a)
  BY <1>1, ReducedIs
<1>3. PICK k \in Nat : k = a.tool
  BY DEF ActionT
<1>4. AddedTo(r.parts, t.parts, ToolPart(k))
  BY <1>2, <1>3, AppendAdds, PartTypes, PartsOf DEF ReducedTo
<1>5. TextOfTurn(r) = TextOfTurn(t)
  BY <1>4, TurnTextAdds, PartTypes, PartFacts
<1>9. ASSUME NEW x PROVE x \in CallParts(r) <=> x \in CallParts(t) \/ x = ToolPart(k)
  <2>1. PICK y : y = ToolPart(k) /\ y.kind = "tool"
    BY PartFacts
  <2>2. AddedTo(r.parts, t.parts, y)
    BY <1>4, <2>1
  <2> QED BY <2>1, <2>2, CallsAdded
<1> QED BY <1>1, <1>3, <1>5, <1>9

\* ... what settles a call changes that call and no text ...
LEMMA SettledParts ==
  ASSUME NEW t \in TurnT, NEW a \in ActionT, a.type \in Settles
  PROVE  /\ CallParts(Reduced(t, a)) = {Changed(x, a) : x \in CallParts(t)}
         /\ TextOfTurn(Reduced(t, a)) = TextOfTurn(t)
<1>1. PICK r \in TurnT : r = Reduced(t, a)
  BY ReducedType
<1>2. ReducedTo(r, t, a)
  BY <1>1, ReducedIs
<1>3. DOMAIN r.parts = DOMAIN t.parts /\ \A i \in DOMAIN t.parts : r.parts[i] = Changed(t.parts[i], a)
  BY <1>2 DEF ReducedTo, Adds, Settles
<1>4. ASSUME NEW i \in DOMAIN t.parts PROVE r.parts[i].kind = t.parts[i].kind /\ r.parts[i].text = t.parts[i].text
  <2>1. t.parts[i] \in PartT
    BY PartsOf
  <2>2. ChangedTo(r.parts[i], t.parts[i], a)
    BY <1>3, <2>1, ChangedIs
  <2> QED BY <2>2 DEF ChangedTo, Settles
<1>5. TextOfTurn(r) = TextOfTurn(t)
  BY <1>3, <1>4, TurnTextSame
<1>6. ASSUME NEW x PROVE x \in CallParts(r) <=> \E y \in CallParts(t) : x = Changed(y, a)
  <2>1. ASSUME NEW i \in DOMAIN r.parts, x = r.parts[i], x.kind = "tool" PROVE \E y \in CallParts(t) : x = Changed(y, a)
    <3>1. t.parts[i] \in CallParts(t)
      BY <1>3, <1>4, <2>1, CallPartsAre
    <3> QED BY <1>3, <2>1, <3>1
  <2>2. ASSUME NEW i \in DOMAIN t.parts, t.parts[i].kind = "tool", x = Changed(t.parts[i], a) PROVE x \in CallParts(r)
    BY <1>3, <1>4, <2>2, CallPartsAre
  <2> QED BY <2>1, <2>2, CallPartsAre
<1> QED BY <1>1, <1>5, <1>6

\* The parts of the calls after the end of a turn: as they were, or cancelled.
LEMMA EndedParts ==
  ASSUME NEW t \in TurnT, NEW f \in BOOLEAN
  PROVE  /\ \A x \in CallParts(Ended(t, f)) : \E y \in CallParts(t) : x = y \/ (x.status = "cancelled" /\ x.tool = y.tool)
         /\ \A y \in CallParts(t) : \E x \in CallParts(Ended(t, f)) : x.tool = y.tool
         /\ TextOfTurn(Ended(t, f)) = TextOfTurn(t)
<1>1. PICK r \in TurnT : r = Ended(t, f)
  BY EndedType
<1>2. EndedTo(r, t, f)
  BY <1>1, EndedIs
<1>3. ASSUME NEW i \in DOMAIN t.parts
      PROVE  /\ r.parts[i].kind = t.parts[i].kind /\ r.parts[i].text = t.parts[i].text
             /\ r.parts[i].tool = t.parts[i].tool
             /\ r.parts[i] = t.parts[i] \/ r.parts[i].status = "cancelled"
  <2>1. PICK y \in PartT : y = t.parts[i]
    BY PartsOf
  <2>2. LET z == [y EXCEPT !.status = "cancelled"] IN
        z.kind = y.kind /\ z.text = y.text /\ z.tool = y.tool /\ z.status = "cancelled"
    BY DEF PartT
  <2>3. r.parts[i] = y \/ r.parts[i] = [y EXCEPT !.status = "cancelled"]
    BY <1>2, <2>1 DEF EndedTo
  <2> QED BY <2>1, <2>2, <2>3
<1>4. DOMAIN r.parts = DOMAIN t.parts
  BY <1>2 DEF EndedTo
<1>5. TextOfTurn(r) = TextOfTurn(t)
  BY <1>3, <1>4, TurnTextSame
<1>6. ASSUME NEW x \in CallParts(r) PROVE \E y \in CallParts(t) : x = y \/ (x.status = "cancelled" /\ x.tool = y.tool)
  <2>1. PICK i \in DOMAIN t.parts : x = r.parts[i] /\ x.kind = "tool"
    BY <1>4, <1>6, CallPartsAre
  <2>2. t.parts[i] \in CallParts(t)
    BY <1>3, <2>1, CallPartsAre
  <2> QED BY <1>3, <2>1, <2>2
<1>7. ASSUME NEW y \in CallParts(t) PROVE \E x \in CallParts(r) : x.tool = y.tool
  <2>1. PICK i \in DOMAIN t.parts : y = t.parts[i] /\ y.kind = "tool"
    BY <1>7, CallPartsAre
  <2>2. r.parts[i] \in CallParts(r)
    BY <1>3, <1>4, <2>1, CallPartsAre
  <2> QED BY <1>3, <2>1, <2>2
<1> QED BY <1>1, <1>5, <1>6, <1>7

-----------------------------------------------------------------------------
\* The calls of the chat, after the start of a call in the active turn ...
LEMMA ToolsStart ==
  ASSUME NEW c, NEW d, NEW r, Turned(c, d, r), NEW x, CallParts(r) = CallParts(c.active) \cup {x}
  PROVE  \A p : p \in Tools(d) <=> p \in Tools(c) \/ p = x
<1>1. ASSUME NEW p \in Tools(d) PROVE p \in Tools(c) \/ p = x
  <2>1. PICK t \in TurnSet(d) : p \in CallParts(t)
    BY <1>1, CallPartsAre
  <2> QED BY <2>1, CallPartsAre DEF Turned
<1>2. ASSUME NEW p \in Tools(c) PROVE p \in Tools(d)
  <2>1. PICK t \in TurnSet(c) : p \in CallParts(t)
    BY <1>2, CallPartsAre
  <2> QED BY <2>1, CallPartsAre DEF Turned
<1>3. x \in Tools(d)
  BY CallPartsAre DEF Turned
<1> QED BY <1>1, <1>2, <1>3

\* A call of the active turn is no other turn's.
LEMMA CallOfActive ==
  ASSUME NEW c \in ChatT, NEW m, NEW n \in Nat, NEW p, NEW q, ChatGood(c, m, n, p, q), c.active.id # 0,
         NEW k \in 1..n, HasCall(c.active, k), NEW t \in TurnSet(c), t.id # c.active.id, NEW x \in CallParts(t)
  PROVE  x.tool # k
<1>1. c.active \in TurnSet(c)
  BY ActiveIn
<1>2. ASSUME x.tool = k PROVE FALSE
  <2>1. HasCall(t, k)
    BY <1>2 DEF CallParts, HasCall
  <2> QED BY <1>1, <2>1 DEF ChatGood, Apart
<1> QED BY <1>2

\* ... after one of them changed ...
LEMMA ToolsSettle ==
  ASSUME NEW c \in ChatT, NEW d \in ChatT, NEW a \in ActionT, NEW m, NEW n \in Nat, NEW p, NEW q,
         ChatGood(c, m, n, p, q), c.active.id # 0, NEW r, Turned(c, d, r),
         a.type \in Settles, a.tool \in 1..n, HasCall(c.active, a.tool),
         CallParts(r) = {Changed(x, a) : x \in CallParts(c.active)}
  PROVE  \A x : x \in Tools(d) <=> \E y \in Tools(c) : x = Changed(y, a)
<1>1. ASSUME NEW t \in TurnSet(c), t.id # c.active.id, NEW x \in CallParts(t) PROVE Changed(x, a) = x
  <2>1. x.tool # a.tool
    BY <1>1, CallOfActive
  <2>2. x \in PartT
    <3>1. t \in TurnT
      BY ChatParts
    <3> QED BY <3>1, PartsOf DEF CallParts
  <2>3. ChangedTo(Changed(x, a), x, a)
    BY <2>2, ChangedIs
  <2> QED BY <2>1, <2>3 DEF ChangedTo, Settles
<1>2. ASSUME NEW x \in Tools(d) PROVE \E y \in Tools(c) : x = Changed(y, a)
  <2>1. PICK t \in TurnSet(d) : x \in CallParts(t)
    BY <1>2, CallPartsAre
  <2>2. CASE t = r
    <3>1. PICK y \in CallParts(c.active) : x = Changed(y, a)
      BY <2>1, <2>2
    <3>2. y \in Tools(c)
      BY CallPartsAre DEF Turned
    <3> QED BY <3>1, <3>2
  <2>3. CASE t \in TurnSet(c) /\ t.id # r.id
    <3>1. x \in Tools(c)
      BY <2>1, <2>3, CallPartsAre
    <3>2. Changed(x, a) = x
      BY <1>1, <2>1, <2>3 DEF Turned
    <3> QED BY <3>1, <3>2
  <2> QED BY <2>2, <2>3 DEF Turned
<1>3. ASSUME NEW y \in Tools(c) PROVE Changed(y, a) \in Tools(d)
  <2>1. PICK t \in TurnSet(c) : y \in CallParts(t)
    BY <1>3, CallPartsAre
  <2>2. CASE t = c.active
    <3>1. Changed(y, a) \in CallParts(r)
      BY <2>1, <2>2
    <3> QED BY <3>1, CallPartsAre DEF Turned
  <2>3. CASE t \in TurnSet(d) /\ t.id # r.id
    <3>1. Changed(y, a) = y
      BY <1>1, <2>1, <2>3 DEF Turned
    <3> QED BY <2>1, <2>3, <3>1, CallPartsAre
  <2> QED BY <2>2, <2>3 DEF Turned
<1> QED BY <1>2, <1>3

\* ... and after the turn ended.
LEMMA ToolsEnd ==
  ASSUME NEW c, NEW d, NEW r, Turned(c, d, r),
         \A x \in CallParts(r) : \E y \in CallParts(c.active) : x = y \/ (x.status = "cancelled" /\ x.tool = y.tool),
         \A y \in CallParts(c.active) : \E x \in CallParts(r) : x.tool = y.tool
  PROVE  /\ \A x \in Tools(d) : \E y \in Tools(c) : x = y \/ (x.status = "cancelled" /\ x.tool = y.tool)
         /\ \A y \in Tools(c) : \E x \in Tools(d) : x.tool = y.tool
<1>1. ASSUME NEW x \in Tools(d) PROVE \E y \in Tools(c) : x = y \/ (x.status = "cancelled" /\ x.tool = y.tool)
  <2>1. PICK t \in TurnSet(d) : x \in CallParts(t)
    BY <1>1, CallPartsAre
  <2>2. CASE t = r
    <3>1. PICK y \in CallParts(c.active) : x = y \/ (x.status = "cancelled" /\ x.tool = y.tool)
      BY <2>1, <2>2
    <3>2. y \in Tools(c)
      BY CallPartsAre DEF Turned
    <3> QED BY <3>1, <3>2
  <2>3. CASE t \in TurnSet(c)
    BY <2>1, <2>3, CallPartsAre
  <2> QED BY <2>2, <2>3 DEF Turned
<1>2. ASSUME NEW y \in Tools(c) PROVE \E x \in Tools(d) : x.tool = y.tool
  <2>1. PICK t \in TurnSet(c) : y \in CallParts(t)
    BY <1>2, CallPartsAre
  <2>2. CASE t = c.active
    <3>1. PICK x \in CallParts(r) : x.tool = y.tool
      BY <2>1, <2>2
    <3>2. x \in Tools(d)
      BY CallPartsAre DEF Turned
    <3> QED BY <3>1, <3>2
  <2>3. CASE t \in TurnSet(d)
    BY <2>1, <2>3, CallPartsAre
  <2> QED BY <2>2, <2>3 DEF Turned
<1> QED BY <1>1, <1>2

\* The text of a chat whose active turn changed.
LEMMA ToldTurned ==
  ASSUME NEW c, NEW d, NEW r, Turned(c, d, r), NEW rows, NEW q, Told(rows, c),
         \A id : id # r.id => TextOfRows(q, id) = TextOfRows(rows, id),
         TextOfRows(q, r.id) = TextOfTurn(r), Texted(q) \subseteq Ids(c)
  PROVE  Told(q, d)
<1>1. ASSUME NEW t \in TurnSet(d) PROVE TextOfRows(q, t.id) = TextOfTurn(t)
  <2>1. CASE t = r
    BY <2>1
  <2>2. CASE t \in TurnSet(c) /\ t.id # r.id
    <3>1. TextOfRows(rows, t.id) = TextOfTurn(t)
      BY <2>2 DEF Told
    <3> QED BY <2>2, <3>1
  <2> QED BY <2>1, <2>2 DEF Turned
<1>2. Texted(q) \subseteq Ids(d)
  BY TurnedIds
<1> QED BY <1>1, <1>2 DEF Told

-----------------------------------------------------------------------------
\* Rows about the same thing.
Sort(x, y) == /\ IsCard(x) <=> IsCard(y)
              /\ IsCard(x) => x.tool = y.tool
              /\ ~IsCard(x) => x.kind = y.kind
              /\ x.kind \in {"user", "agent"} => x.turn = y.turn
              /\ x.kind = "agent" => x.segment = y.segment
\* One row is new, or takes the place of one about the same thing.
Changes(q, rows, x) ==
  \/ q = Append(rows, x)
  \/ \E i \in DOMAIN rows : q = [rows EXCEPT ![i] = x] /\ Sort(rows[i], x)

\* A row is replaced by one of its sort.
LEMMA SortKinds ==
  ASSUME NEW x, NEW y, Sort(x, y)
  PROVE  /\ x.kind = "user" <=> y.kind = "user"
         /\ x.kind = "agent" <=> y.kind = "agent"
         /\ x.kind = "error" <=> y.kind = "error"
         /\ IsCard(x) <=> IsCard(y)
  BY DEF Sort, IsCard

\* Where the rows after the change come from.
LEMMA ChangesRows ==
  ASSUME NEW rows \in Seq(RowT), NEW q, NEW x \in RowT, Changes(q, rows, x)
  PROVE  /\ q \in Seq(RowT)
         /\ \A i \in DOMAIN q : \/ (q[i] = x /\ (i \in DOMAIN rows => Sort(rows[i], x)))
                                \/ (i \in DOMAIN rows /\ q[i] = rows[i])
         /\ \A i \in DOMAIN rows : i \in DOMAIN q /\ (q[i] = rows[i] \/ (q[i] = x /\ Sort(rows[i], x)))
         /\ \E i \in DOMAIN q : q[i] = x
<1>1. PICK n \in Nat : DOMAIN rows = 1..n /\ n = Len(rows)
  BY LenProperties
<1>2. CASE q = Append(rows, x)
  <2>1. q \in Seq(RowT) /\ AddedTo(q, rows, x)
    BY <1>2, AppendProperties, AppendAdds
  <2>2. /\ DOMAIN q = 1..n+1 /\ q[n+1] = x /\ \A i \in 1..n : q[i] = rows[i]
    <3>1. PICK m \in Nat : /\ DOMAIN rows = 1..m /\ DOMAIN q = 1..m+1 /\ q[m+1] = x
                           /\ \A i \in 1..m : q[i] = rows[i]
      BY <2>1 DEF AddedTo
    <3>2. 1..m = 1..n
      BY <1>1, <3>1
    <3>3. m = n
      BY <3>2
    <3> QED BY <3>1, <3>3
  <2>3. ASSUME NEW i \in DOMAIN q PROVE (q[i] = x /\ i \notin DOMAIN rows) \/ (i \in DOMAIN rows /\ q[i] = rows[i])
    <3>1. i \in 1..n \/ i = n + 1
      BY <2>2
    <3>2. n + 1 \notin 1..n
      OBVIOUS
    <3> QED BY <1>1, <2>2, <3>1, <3>2
  <2>4. \A i \in DOMAIN rows : i \in DOMAIN q /\ q[i] = rows[i]
    BY <1>1, <2>2
  <2>5. n + 1 \in DOMAIN q
    BY <2>2
  <2> QED BY <2>1, <2>2, <2>3, <2>4, <2>5
<1>3. CASE \E i \in DOMAIN rows : q = [rows EXCEPT ![i] = x] /\ Sort(rows[i], x)
  <2>1. PICK i \in 1..n : q = [rows EXCEPT ![i] = x] /\ Sort(rows[i], x)
    BY <1>1, <1>3
  <2>2. DOMAIN q = 1..n /\ q[i] = x /\ \A j \in 1..n : j # i => q[j] = rows[j]
    BY <1>1, <2>1
  <2>3. q \in Seq(RowT)
    BY <1>1, <2>1
  <2> QED BY <1>1, <2>1, <2>2, <2>3
<1> QED BY <1>2, <1>3 DEF Changes

\* What the change does to the turns of the messages and of the text.
LEMMA ChangesTurns ==
  ASSUME NEW rows \in Seq(RowT), NEW q, NEW x \in RowT, Changes(q, rows, x), NEW t
  PROVE  /\ t \in Users(q) <=> t \in Users(rows) \/ (x.kind = "user" /\ t = x.turn)
         /\ t \in Texted(q) <=> t \in Texted(rows) \/ (x.kind = "agent" /\ t = x.turn)
<1>1. \A r, k : k \in Users(r) <=> \E i \in DOMAIN r : r[i].kind = "user" /\ k = r[i].turn
  BY DEF Users
<1>2. \A r, k : k \in Texted(r) <=> \E i \in DOMAIN r : r[i].kind = "agent" /\ k = r[i].turn
  BY DEF Texted
<1>3. \A i \in DOMAIN q : q[i] = x \/ (i \in DOMAIN rows /\ q[i] = rows[i])
  BY ChangesRows
<1>4. \A i \in DOMAIN rows : i \in DOMAIN q /\ (q[i] = rows[i] \/ (q[i] = x /\ Sort(rows[i], x)))
  BY ChangesRows
<1>5. \E i \in DOMAIN q : q[i] = x
  BY ChangesRows
<1>6. t \in Users(q) <=> t \in Users(rows) \/ (x.kind = "user" /\ t = x.turn)
  <2>1. ASSUME t \in Users(q) PROVE t \in Users(rows) \/ (x.kind = "user" /\ t = x.turn)
    BY <1>1, <1>3, <2>1
  <2>2. ASSUME t \in Users(rows) PROVE t \in Users(q)
    <3>1. PICK i \in DOMAIN rows : rows[i].kind = "user" /\ t = rows[i].turn
      BY <1>1, <2>2
    <3>2. i \in DOMAIN q /\ q[i].kind = "user" /\ q[i].turn = t
      BY <1>4, <3>1, SortKinds DEF Sort
    <3> QED BY <1>1, <3>2
  <2>3. ASSUME x.kind = "user", t = x.turn PROVE t \in Users(q)
    BY <1>1, <1>5, <2>3
  <2> QED BY <2>1, <2>2, <2>3
<1>7. t \in Texted(q) <=> t \in Texted(rows) \/ (x.kind = "agent" /\ t = x.turn)
  <2>1. ASSUME t \in Texted(q) PROVE t \in Texted(rows) \/ (x.kind = "agent" /\ t = x.turn)
    BY <1>2, <1>3, <2>1
  <2>2. ASSUME t \in Texted(rows) PROVE t \in Texted(q)
    <3>1. PICK i \in DOMAIN rows : rows[i].kind = "agent" /\ t = rows[i].turn
      BY <1>2, <2>2
    <3>2. i \in DOMAIN q /\ q[i].kind = "agent" /\ q[i].turn = t
      BY <1>4, <3>1, SortKinds DEF Sort
    <3> QED BY <1>2, <3>2
  <2>3. ASSUME x.kind = "agent", t = x.turn PROVE t \in Texted(q)
    BY <1>2, <1>5, <2>3
  <2> QED BY <2>1, <2>2, <2>3
<1> QED BY <1>6, <1>7

\* A row that is not text leaves the text as it is ...
LEMMA ChangesNoText ==
  ASSUME NEW rows \in Seq(RowT), NEW q, NEW x \in RowT, Changes(q, rows, x), x.kind # "agent"
  PROVE  /\ \A id : TextOfRows(q, id) = TextOfRows(rows, id)
         /\ \A t, g, h \in Nat : Layered(rows, t, g) /\ g <= h => Layered(q, t, h)
<1>1. /\ q \in Seq(RowT)
      /\ \A i \in DOMAIN q : q[i] = x \/ (i \in DOMAIN rows /\ q[i] = rows[i])
  BY ChangesRows
<1>2. ASSUME NEW id PROVE TextOfRows(q, id) = TextOfRows(rows, id)
  <2>1. TextAt(x, id) = << >>
    BY DEF TextAt
  <2>2. CASE q = Append(rows, x)
    BY <2>1, <2>2, TextKept
  <2>3. CASE \E i \in DOMAIN rows : q = [rows EXCEPT ![i] = x] /\ Sort(rows[i], x)
    <3>1. PICK i \in DOMAIN rows : q = [rows EXCEPT ![i] = x] /\ Sort(rows[i], x)
      BY <2>3
    <3>2. DOMAIN q = DOMAIN rows /\ q[i] = x /\ \A j \in DOMAIN rows : j # i => q[j] = rows[j]
      BY <3>1
    <3>3. TextAt(rows[i], id) = << >>
      BY <3>1, SortKinds DEF TextAt
    <3>4. \A j \in DOMAIN rows : TextAt(q[j], id) = TextAt(rows[j], id)
      BY <2>1, <3>2, <3>3
    <3> QED BY <1>1, <3>2, <3>4, TextSame
  <2> QED BY <2>2, <2>3 DEF Changes
<1>3. ASSUME NEW t \in Nat, NEW g \in Nat, NEW h \in Nat, Layered(rows, t, g), g <= h PROVE Layered(q, t, h)
  <2>1. SUFFICES ASSUME NEW i \in DOMAIN q, q[i].kind = "agent", q[i].turn = t
                 PROVE  /\ q[i].segment <= h
                        /\ \A j \in DOMAIN q : i < j /\ q[j].kind = "agent" /\ q[j].turn = t =>
                             q[i].segment < q[j].segment
    BY DEF Layered
  <2>2. i \in DOMAIN rows /\ q[i] = rows[i]
    BY <1>1, <2>1
  <2>3. rows[i].segment <= g /\ rows[i].segment \in Nat
    <3>1. rows[i] \in RowT
      BY <2>2, ElementOfSeq, LenProperties
    <3> QED BY <1>3, <2>1, <2>2, <3>1 DEF Layered, RowT
  <2>4. \A j \in DOMAIN q : i < j /\ q[j].kind = "agent" /\ q[j].turn = t => q[i].segment < q[j].segment
    BY <1>1, <1>3, <2>1, <2>2 DEF Layered
  <2> QED BY <1>3, <2>2, <2>3, <2>4
<1> QED BY <1>2, <1>3

\* ... one that is no card the cards ...
LEMMA ChangesNoCard ==
  ASSUME NEW rows \in Seq(RowT), NEW q, NEW x \in RowT, Changes(q, rows, x), ~IsCard(x),
         NEW c, NEW perm, Carded(rows, c, perm)
  PROVE  Carded(q, c, perm)
<1>1. \A i \in DOMAIN q : q[i] = x \/ (i \in DOMAIN rows /\ q[i] = rows[i])
  BY ChangesRows
<1>2. \A i \in DOMAIN rows : IsCard(rows[i]) => i \in DOMAIN q /\ q[i] = rows[i]
  BY ChangesRows, SortKinds
<1>3. \A i \in DOMAIN q : IsCard(q[i]) => i \in DOMAIN rows /\ q[i] = rows[i]
  BY <1>1
<1>4. OneCard(q)
  BY <1>3 DEF OneCard, Carded
<1>5. Known(q, c)
  <2>1. Calls(q) \subseteq Calls(rows)
    BY <1>3 DEF Calls
  <2> QED BY <2>1 DEF Known, Carded
<1>6. Shown(q, c, perm)
  <2>1. \A p : IsCard(CardFor(p))
    BY DEF IsCard, CardFor, Card, Row
  <2> QED BY <1>2, <2>1 DEF Shown, Carded
<1>7. Plain(q, c)
  BY <1>3 DEF Plain, Carded
<1> QED BY <1>4, <1>5, <1>6, <1>7 DEF Carded

\* ... and one that is no error the errors.
LEMMA ChangesNoError ==
  ASSUME NEW rows \in Seq(RowT), NEW q, NEW x \in RowT, Changes(q, rows, x), x.kind # "error"
  PROVE  ErrorsOf(q) = ErrorsOf(rows)
<1>1. \A i \in DOMAIN q : q[i] = x \/ (i \in DOMAIN rows /\ q[i] = rows[i])
  BY ChangesRows
<1>2. \A i \in DOMAIN rows : rows[i].kind = "error" => i \in DOMAIN q /\ q[i] = rows[i]
  BY ChangesRows, SortKinds
<1> QED BY <1>1, <1>2 DEF ErrorsOf

-----------------------------------------------------------------------------
\* Sets of places in a sequence are finite, and so can be counted.
LEMMA CountsFinite ==
  ASSUME NEW X, NEW s \in Seq(X)
  PROVE  \A S \in SUBSET DOMAIN s : IsFiniteSet(S) /\ Cardinality(S) \in Nat
<1>1. PICK n \in Nat : DOMAIN s = 1..n
  BY LenProperties
<1>2. IsFiniteSet(1..n)
  BY FS_Interval
<1>3. \A S \in SUBSET (1..n) : IsFiniteSet(S)
  BY <1>2, FS_Subset
<1> QED BY <1>1, <1>3, FS_CardinalityType

\* One more error, one more turn that failed.
LEMMA ErrorCounts ==
  ASSUME NEW rows \in Seq(RowT), NEW x \in RowT, x.kind = "error"
  PROVE  Cardinality(ErrorsOf(Append(rows, x))) = Cardinality(ErrorsOf(rows)) + 1
<1>1. PICK q : q = Append(rows, x)
  OBVIOUS
<1>2. AddedTo(q, rows, x)
  BY <1>1, AppendAdds
<1>3. PICK n \in Nat : /\ DOMAIN rows = 1..n /\ DOMAIN q = 1..n+1 /\ q[n+1] = x
                       /\ \A i \in 1..n : q[i] = rows[i]
  BY <1>2 DEF AddedTo
<1>4. ErrorsOf(q) = ErrorsOf(rows) \cup {n+1} /\ n + 1 \notin ErrorsOf(rows)
  <2>1. ErrorsOf(q) = {i \in 1..n+1 : q[i].kind = "error"} /\ ErrorsOf(rows) = {i \in 1..n : rows[i].kind = "error"}
    BY <1>3 DEF ErrorsOf
  <2>2. \A i : i \in 1..n+1 <=> i \in 1..n \/ i = n+1
    BY <1>3
  <2>3. n+1 \notin 1..n
    BY <1>3
  <2>4. \A i : i \in ErrorsOf(q) <=> i \in ErrorsOf(rows) \/ i = n+1
    BY <1>3, <2>1, <2>2, <2>3
  <2> QED BY <2>1, <2>3, <2>4
<1>5. IsFiniteSet(ErrorsOf(rows))
  BY CountsFinite DEF ErrorsOf
<1> QED BY <1>1, <1>4, <1>5, FS_AddElement

\* A turn that failed counts among the failed ones.
LEMMA FailedCounts ==
  ASSUME NEW ts \in Seq(TurnT), NEW us, NEW t, AddedTo(us, ts, t), t.failed \in BOOLEAN
  PROVE  /\ t.failed => Cardinality(FailedOf(us)) = Cardinality(FailedOf(ts)) + 1
         /\ ~t.failed => FailedOf(us) = FailedOf(ts)
<1>1. PICK n \in Nat : /\ DOMAIN ts = 1..n /\ DOMAIN us = 1..n+1 /\ us[n+1] = t
                       /\ \A i \in 1..n : us[i] = ts[i]
  BY DEF AddedTo
<1>2. FailedOf(us) = {i \in 1..n+1 : us[i].failed} /\ FailedOf(ts) = {i \in 1..n : ts[i].failed}
  BY <1>1 DEF FailedOf
<1>3. \A i : i \in 1..n+1 <=> i \in 1..n \/ i = n+1
  BY <1>1
<1>4. n+1 \notin 1..n
  BY <1>1
<1>5. \A i : i \in FailedOf(us) <=> i \in FailedOf(ts) \/ (i = n+1 /\ t.failed)
  BY <1>1, <1>2, <1>3, <1>4
<1>6. IsFiniteSet(FailedOf(ts))
  BY CountsFinite DEF FailedOf
<1>7. ASSUME t.failed PROVE Cardinality(FailedOf(us)) = Cardinality(FailedOf(ts)) + 1
  <2>1. FailedOf(us) = FailedOf(ts) \cup {n+1} /\ n+1 \notin FailedOf(ts)
    BY <1>2, <1>4, <1>5, <1>7
  <2> QED BY <1>6, <2>1, FS_AddElement
<1>8. ASSUME ~t.failed PROVE FailedOf(us) = FailedOf(ts)
  BY <1>5, <1>8
<1> QED BY <1>7, <1>8

\* A call has one part in the chat.
LEMMA OnePart ==
  ASSUME NEW c \in ChatT, NEW m, NEW n \in Nat, NEW p, NEW q, ChatGood(c, m, n, p, q),
         NEW x \in Tools(c), NEW y \in Tools(c), x.tool = y.tool
  PROVE  x = y
<1>1. PICK t \in TurnSet(c) : \E i \in DOMAIN t.parts : x = t.parts[i] /\ x.kind = "tool"
  BY ToolsAre
<1>2. PICK i \in DOMAIN t.parts : x = t.parts[i] /\ x.kind = "tool"
  BY <1>1
<1>3. PICK u \in TurnSet(c) : \E j \in DOMAIN u.parts : y = u.parts[j] /\ y.kind = "tool"
  BY ToolsAre
<1>4. PICK j \in DOMAIN u.parts : y = u.parts[j] /\ y.kind = "tool"
  BY <1>3
<1>5. x.tool \in 1..n /\ OneCall(t)
  BY <1>2 DEF ChatGood, TurnGood, PartGood
<1>6. HasCall(t, x.tool) /\ HasCall(u, x.tool)
  BY <1>2, <1>4 DEF HasCall
<1>7. t.id = u.id
  BY <1>5, <1>6 DEF ChatGood, Apart
<1>8. t = u
  BY <1>7, ChatParts DEF ChatGood, Named
<1> QED BY <1>2, <1>4, <1>5, <1>8 DEF OneCall

\* The part of a call is a part.
LEMMA ToolTypes0 ==
  ASSUME NEW c \in ChatT, NEW x \in Tools(c)
  PROVE  x \in PartT /\ x.kind = "tool"
<1>1. PICK t \in TurnSet(c) : \E i \in DOMAIN t.parts : x = t.parts[i] /\ x.kind = "tool"
  BY ToolsAre
<1> QED BY <1>1, ChatParts, PartsOf

\* Cards depend only on the calls of the chat ...
LEMMA CardedSame ==
  ASSUME NEW rows, NEW c, NEW d, NEW perm, Tools(d) = Tools(c), Carded(rows, c, perm)
  PROVE  Carded(rows, d, perm)
  BY DEF Carded, Known, Shown, Plain

\* The cards stay right when calls are cut short.
LEMMA CardedEnd ==
  ASSUME NEW rows, NEW c, NEW d, NEW perm, Carded(rows, c, perm),
         \A x \in Tools(d) : \E y \in Tools(c) : x = y \/ (x.status = "cancelled" /\ x.tool = y.tool),
         \A y \in Tools(c) : \E x \in Tools(d) : x.tool = y.tool
  PROVE  Carded(rows, d, perm)
<1>1. OneCard(rows)
  BY DEF Carded
<1>2. Known(rows, d)
  BY DEF Carded, Known
<1>3. \A x \in Tools(d) : x.status # "cancelled" => x \in Tools(c)
  OBVIOUS
<1>4. Shown(rows, d, perm)
  BY <1>3 DEF Carded, Shown, Visible
<1>5. Plain(rows, d)
  BY <1>3 DEF Carded, Plain
<1> QED BY <1>1, <1>2, <1>4, <1>5 DEF Carded

\* The rows of a turn's text name turns of the chat.
LEMMA NoTextOf ==
  ASSUME NEW rows \in Seq(RowT), NEW t, t \notin Texted(rows), NEW g
  PROVE  /\ TextOfRows(rows, t) = << >> /\ Layered(rows, t, g)
<1>1. \A i \in DOMAIN rows : rows[i].kind = "agent" => rows[i].turn # t
  BY DEF Texted
<1> QED BY <1>1, TextNone DEF Layered

\* A turn without parts has no text.
LEMMA EmptyTurnText ==
  ASSUME NEW t \in TurnT, t.parts = << >>
  PROVE  TextOfTurn(t) = << >>
<1>1. [i \in DOMAIN t.parts |-> t.parts[i].text] = << >>
  OBVIOUS
<1> QED BY <1>1, FlattenEmpty DEF TextOfTurn

\* The message of a user is put at the end or in its place.
LEMMA UserChanges ==
  ASSUME NEW rows \in Seq(RowT), NEW t \in Nat
  PROVE  \E x \in RowT : Changes(WithUser(rows, t), rows, x) /\ x.kind = "user" /\ x.turn = t
<1>1. PICK x \in RowT : x = Row("user", t, 0, 0)
  BY RowType DEF Kinds
<1>2. x.kind = "user" /\ x.turn = t
  BY <1>1, RowFacts
<1>3. CASE WithUser(rows, t) = Append(rows, x)
  BY <1>2, <1>3 DEF Changes
<1>4. CASE \E i \in 1..Len(rows) : FirstOf(i, MessageRows(rows, t)) /\ WithUser(rows, t) = [rows EXCEPT ![i] = x]
  <2>1. PICK i \in 1..Len(rows) : FirstOf(i, MessageRows(rows, t)) /\ WithUser(rows, t) = [rows EXCEPT ![i] = x]
    BY <1>4
  <2>2. i \in DOMAIN rows /\ rows[i].kind = "user" /\ rows[i].turn = t
    BY <2>1, LenProperties DEF FirstOf, MessageRows
  <2>3. Sort(rows[i], x)
    BY <1>2, <2>2 DEF Sort, IsCard
  <2> QED BY <1>2, <2>1, <2>2, <2>3 DEF Changes
<1> QED BY <1>1, <1>3, <1>4, UserRows

-----------------------------------------------------------------------------
\* A turn starts.
LEMMA MirrorStart ==
  ASSUME NEW v \in ViewT, NEW c \in ChatT, NEW d \in ChatT, NEW w, NEW a, NEW P, NEW Q, NEW perm,
         Mirror(v, c, P, perm), NEW t \in Nat, t # 0, a.turn = t, t \notin Ids(c), c.active.id = 0,
         Starts0(c, d, t), StartShown(w, v, a), P \subseteq Q \cup {t}
  PROVE  Mirror(w, d, Q, perm)
<1>1. v.rows \in Seq(RowT)
  BY DEF ViewT
<1>2. w.rows = WithUser(v.rows, t) /\ w.turn = t /\ w.proj = t /\ w.segment = 0
  BY DEF StartShown
<1>3. PICK x \in RowT : Changes(w.rows, v.rows, x) /\ x.kind = "user" /\ x.turn = t
  BY <1>1, <1>2, UserChanges
<1>4. PICK q : q = w.rows
  OBVIOUS
<1>5. /\ d.past = c.past /\ d.active.id = t /\ d.active.parts = << >> /\ d.active \in TurnT
      /\ \A y : y \in TurnSet(d) <=> y \in TurnSet(c) \/ y = d.active
      /\ \A id : id \in Ids(d) <=> id \in Ids(c) \/ id = t
  BY StartsTurnIn, ChatParts
<1>6. q \in Seq(RowT) /\ \A id : TextOfRows(q, id) = TextOfRows(v.rows, id)
  BY <1>1, <1>3, <1>4, ChangesRows, ChangesNoText
<1>7. Users(q) = Users(v.rows) \cup {t} /\ Texted(q) = Texted(v.rows)
  <2>1. \A id : id \in Users(q) <=> id \in Users(v.rows) \/ id = t
    BY <1>1, <1>3, <1>4, ChangesTurns
  <2>2. \A id : id \in Texted(q) <=> id \in Texted(v.rows)
    BY <1>1, <1>3, <1>4, ChangesTurns
  <2> QED BY <2>1, <2>2
<1>8. Working(w.turn, d, Q)
  BY <1>2, <1>5 DEF Working
<1>9. Asked(q, d, Q)
  BY <1>5, <1>7 DEF Asked, Mirror
<1>10. Texted(v.rows) \subseteq Ids(c) /\ \A y \in TurnSet(c) : TextOfRows(v.rows, y.id) = TextOfTurn(y)
  BY DEF Mirror, Told
<1>11. t \notin Texted(q)
  BY <1>7, <1>10
<1>12. TextOfRows(q, t) = << >> /\ Layered(q, t, 0)
  BY <1>6, <1>11, NoTextOf
<1>13. Told(q, d)
  <2>1. TextOfTurn(d.active) = << >>
    BY <1>5, EmptyTurnText
  <2>2. Texted(q) \subseteq Ids(d)
    BY <1>5, <1>7, <1>10
  <2> QED BY <1>5, <1>6, <1>10, <1>12, <2>1, <2>2 DEF Told
<1>14. Failures(q, d)
  BY <1>1, <1>3, <1>4, <1>5, ChangesNoError DEF Failures, Mirror
<1>15. Carded(q, d, perm)
  <2>1. Carded(v.rows, c, perm)
    BY DEF Mirror
  <2>2. ~IsCard(x)
    BY <1>3 DEF IsCard
  <2>3. Carded(q, c, perm)
    BY <1>1, <1>3, <1>4, <2>1, <2>2, ChangesNoCard
  <2> QED BY <2>3, StartedTools, CardedSame
<1> QED BY <1>2, <1>4, <1>8, <1>9, <1>12, <1>13, <1>14, <1>15 DEF Mirror

\* A turn ends, in the chat (f says whether by an error) or not at all.
LEMMA MirrorTurnEnds ==
  ASSUME NEW v \in ViewT, NEW c \in ChatT, NEW d \in ChatT, NEW w, NEW P, NEW perm,
         NEW m \in Nat, NEW n, NEW p, NEW u, ChatGood(c, m, n, p, u),
         Mirror(v, c, P, perm), c.active.id # 0, Ends0(c, d, FALSE), EndShown(w, v)
  PROVE  Mirror(w, d, P, perm)
<1>1. v.rows \in Seq(RowT) /\ w.rows = v.rows /\ w.turn = 0 /\ w.proj = 0 /\ w.segment = 0
  BY DEF ViewT, EndShown
<1>2. c.active \in TurnT
  BY ChatParts
<1>3. PICK r : r = Ended(c.active, FALSE)
  OBVIOUS
<1>4. /\ Turned(c, d, r) /\ d.active.id = 0 /\ AddedTo(d.past, c.past, r) /\ r.failed = FALSE
  BY <1>3, EndsTurn
<1>5. Ids(d) = Ids(c)
  BY <1>4, TurnedIds
<1>6. /\ \A x \in CallParts(r) : \E y \in CallParts(c.active) : x = y \/ (x.status = "cancelled" /\ x.tool = y.tool)
      /\ \A y \in CallParts(c.active) : \E x \in CallParts(r) : x.tool = y.tool
      /\ TextOfTurn(r) = TextOfTurn(c.active)
  BY <1>2, <1>3, EndedParts
<1>7. Told(v.rows, c) /\ Texted(v.rows) \subseteq Ids(c)
  BY DEF Mirror, Told
<1>8. TextOfRows(v.rows, r.id) = TextOfTurn(r)
  BY <1>4, <1>6, <1>7 DEF Turned, Told
<1>9. Told(w.rows, d)
  BY <1>1, <1>4, <1>7, <1>8, ToldTurned
<1>10. Working(w.turn, d, P) /\ Asked(w.rows, d, P)
  BY <1>1, <1>4, <1>5 DEF Working, Asked, Mirror
<1>11. Layered(w.rows, w.proj, w.segment)
  <2>1. 0 \notin Ids(c)
    BY DEF ChatGood, Ids
  <2> QED BY <1>1, <1>7, <2>1, NoTextOf
<1>12. Failures(w.rows, d)
  <2>1. c.past \in Seq(TurnT)
    BY ChatParts
  <2>2. FailedOf(d.past) = FailedOf(c.past)
    BY <1>4, <2>1, FailedCounts
  <2> QED BY <1>1, <2>2 DEF Failures, Mirror
<1>13. Carded(w.rows, d, perm)
  <2>1. /\ \A x \in Tools(d) : \E y \in Tools(c) : x = y \/ (x.status = "cancelled" /\ x.tool = y.tool)
        /\ \A y \in Tools(c) : \E x \in Tools(d) : x.tool = y.tool
    BY <1>4, <1>6, ToolsEnd
  <2>2. Carded(v.rows, c, perm)
    BY DEF Mirror
  <2> QED BY <1>1, <2>1, <2>2, CardedEnd
<1> QED BY <1>9, <1>10, <1>11, <1>12, <1>13 DEF Mirror

\* ... the end of a turn that is over already, which only stops the window working ...
LEMMA MirrorTurnStays ==
  ASSUME NEW v \in ViewT, NEW c \in ChatT, NEW w, NEW P, NEW perm,
         NEW m \in Nat, NEW n, NEW p, NEW u, ChatGood(c, m, n, p, u),
         Mirror(v, c, P, perm), NEW t, v.turn \in {0, t}, t # c.active.id, EndShown(w, v)
  PROVE  Mirror(w, c, P, perm)
<1>1. v.rows \in Seq(RowT) /\ w.rows = v.rows /\ w.turn = 0 /\ w.proj = 0 /\ w.segment = 0
  BY DEF ViewT, EndShown
<1>2. Texted(v.rows) \subseteq Ids(c) /\ Working(v.turn, c, P)
  BY DEF Mirror, Told
<1>3. Working(w.turn, c, P)
  BY <1>1, <1>2 DEF Working
<1>4. Layered(w.rows, w.proj, w.segment)
  <2>1. 0 \notin Ids(c)
    BY DEF ChatGood, Ids
  <2> QED BY <1>1, <1>2, <2>1, NoTextOf
<1> QED BY <1>1, <1>3, <1>4 DEF Mirror

\* ... an error ...
LEMMA MirrorError ==
  ASSUME NEW v \in ViewT, NEW c \in ChatT, NEW d \in ChatT, NEW w, NEW P, NEW perm,
         NEW m \in Nat, NEW n, NEW p, NEW u, ChatGood(c, m, n, p, u),
         Mirror(v, c, P, perm), c.active.id # 0, Ends0(c, d, TRUE), ErrorShown(w, v)
  PROVE  Mirror(w, d, P, perm)
<1>1. PICK x \in RowT : x = Row("error", 0, 0, 0) /\ x.kind = "error"
  BY RowType, RowFacts DEF Kinds
<1>2. /\ v.rows \in Seq(RowT) /\ w.rows = Append(v.rows, x) /\ w.turn = 0
      /\ w.proj = v.proj /\ w.segment = v.segment /\ v.proj \in Nat /\ v.segment \in Nat
  BY <1>1 DEF ViewT, ErrorShown
<1>3. Changes(w.rows, v.rows, x)
  BY <1>2 DEF Changes
<1>4. PICK q : q = w.rows
  OBVIOUS
<1>5. c.active \in TurnT
  BY ChatParts
<1>6. PICK r : r = Ended(c.active, TRUE)
  OBVIOUS
<1>7. /\ Turned(c, d, r) /\ d.active.id = 0 /\ AddedTo(d.past, c.past, r) /\ r.failed = TRUE
  BY <1>6, EndsTurn
<1>8. Ids(d) = Ids(c)
  BY <1>7, TurnedIds
<1>9. /\ \A y \in CallParts(r) : \E z \in CallParts(c.active) : y = z \/ (y.status = "cancelled" /\ y.tool = z.tool)
      /\ \A z \in CallParts(c.active) : \E y \in CallParts(r) : y.tool = z.tool
      /\ TextOfTurn(r) = TextOfTurn(c.active)
  BY <1>5, <1>6, EndedParts
<1>10. /\ q \in Seq(RowT) /\ \A id : TextOfRows(q, id) = TextOfRows(v.rows, id)
       /\ \A t, g, h \in Nat : Layered(v.rows, t, g) /\ g <= h => Layered(q, t, h)
  BY <1>1, <1>2, <1>3, <1>4, ChangesRows, ChangesNoText
<1>11. Users(q) = Users(v.rows) /\ Texted(q) = Texted(v.rows)
  <2>1. \A id : id \in Users(q) <=> id \in Users(v.rows)
    BY <1>1, <1>2, <1>3, <1>4, ChangesTurns
  <2>2. \A id : id \in Texted(q) <=> id \in Texted(v.rows)
    BY <1>1, <1>2, <1>3, <1>4, ChangesTurns
  <2> QED BY <2>1, <2>2
<1>12. Told(v.rows, c) /\ Texted(v.rows) \subseteq Ids(c)
  BY DEF Mirror, Told
<1>13. TextOfRows(q, r.id) = TextOfTurn(r)
  BY <1>7, <1>9, <1>10, <1>12 DEF Turned, Told
<1>14. Told(q, d)
  BY <1>7, <1>10, <1>11, <1>12, <1>13, ToldTurned
<1>15. Working(w.turn, d, P) /\ Asked(q, d, P)
  BY <1>2, <1>7, <1>8, <1>11 DEF Working, Asked, Mirror
<1>16. Layered(q, w.proj, w.segment)
  BY <1>2, <1>10 DEF Mirror
<1>17. Failures(q, d)
  <2>1. c.past \in Seq(TurnT)
    BY ChatParts
  <2>2. Cardinality(FailedOf(d.past)) = Cardinality(FailedOf(c.past)) + 1
    BY <1>7, <2>1, FailedCounts
  <2>3. Cardinality(ErrorsOf(q)) = Cardinality(ErrorsOf(v.rows)) + 1
    BY <1>1, <1>2, <1>4, ErrorCounts
  <2> QED BY <2>2, <2>3 DEF Failures, Mirror
<1>18. Carded(q, d, perm)
  <2>1. /\ \A y \in Tools(d) : \E z \in Tools(c) : y = z \/ (y.status = "cancelled" /\ y.tool = z.tool)
        /\ \A z \in Tools(c) : \E y \in Tools(d) : y.tool = z.tool
    BY <1>7, <1>9, ToolsEnd
  <2>2. Carded(v.rows, c, perm) /\ ~IsCard(x)
    BY <1>1 DEF Mirror, IsCard
  <2>3. Carded(q, c, perm)
    BY <1>1, <1>2, <1>3, <1>4, <2>2, ChangesNoCard
  <2> QED BY <2>1, <2>3, CardedEnd
<1> QED BY <1>4, <1>14, <1>15, <1>16, <1>17, <1>18 DEF Mirror

-----------------------------------------------------------------------------
\* The row of text that grows keeps its name.
LEMMA GrownIs ==
  ASSUME NEW rows \in Seq(RowT), NEW i \in 1..Len(rows), NEW e \in Seq(Nat)
  PROVE  \E x \in RowT : /\ Grown(rows, i, e) = [rows EXCEPT ![i] = x]
                         /\ x.kind = rows[i].kind /\ x.turn = rows[i].turn /\ x.segment = rows[i].segment
                         /\ x.tool = rows[i].tool /\ x.text = rows[i].text \o e
<1>1. rows[i] \in RowT
  BY ElementOfSeq
<1>2. rows[i].text \o e \in Seq(Nat)
  BY <1>1, ConcatType DEF RowT
<1>3. PICK x : x = [rows[i] EXCEPT !.text = rows[i].text \o e]
  OBVIOUS
<1>4. x \in RowT
  BY <1>1, <1>2, <1>3 DEF RowT
<1>5. /\ x.kind = rows[i].kind /\ x.turn = rows[i].turn /\ x.segment = rows[i].segment
      /\ x.tool = rows[i].tool /\ x.text = rows[i].text \o e
  BY <1>1, <1>3 DEF RowT
<1>6. Grown(rows, i, e) = [rows EXCEPT ![i] = x]
  BY <1>3 DEF Grown
<1> QED BY <1>4, <1>5, <1>6

\* Text goes to the end of its turn, in the last segment.
LEMMA DeltaChanges ==
  ASSUME NEW rows \in Seq(RowT), NEW t \in Nat, NEW g \in Nat, NEW e \in Seq(Nat), Layered(rows, t, g),
         NEW q, q = WithDelta(rows, t, g, e)
  PROVE  /\ \E x \in RowT : Changes(q, rows, x) /\ x.kind = "agent" /\ x.turn = t
         /\ TextOfRows(q, t) = TextOfRows(rows, t) \o e
         /\ \A id : id # t => TextOfRows(q, id) = TextOfRows(rows, id)
         /\ Layered(q, t, g)
<1>1. PICK n \in Nat : n = Len(rows) /\ DOMAIN rows = 1..n
  BY LenProperties
<1>2. \A i \in 1..n : rows[i] \in RowT /\ rows[i].segment \in Nat
  <2>1. \A i \in 1..n : rows[i] \in RowT
    BY <1>1, ElementOfSeq
  <2> QED BY <2>1 DEF RowT
<1>3. CASE AgentRows(rows, t, g) = {} /\ q = Append(rows, [Row("agent", t, g, 0) EXCEPT !.text = e])
  <2>1. PICK x \in RowT : x = [Row("agent", t, g, 0) EXCEPT !.text = e]
    BY TextRowType
  <2>2. x.kind = "agent" /\ x.turn = t /\ x.segment = g
    BY <2>1, RowFacts
  <2>3. x.text = e
    BY <2>1 DEF Row
  <2>4. q = Append(rows, x)
    BY <1>3, <2>1
  <2>5. Changes(q, rows, x)
    BY <2>4 DEF Changes
  <2>6. TextAt(x, t) = e /\ \A id : id # t => TextAt(x, id) = << >>
    BY <2>2, <2>3 DEF TextAt
  <2>7. TextOfRows(q, t) = TextOfRows(rows, t) \o e
    BY <2>4, <2>6, TextAdded
  <2>8. \A id : id # t => TextOfRows(q, id) = TextOfRows(rows, id)
    BY <2>4, <2>6, TextKept
  <2>9. Layered(q, t, g)
    <3>1. AddedTo(q, rows, x)
      BY <2>4, AppendAdds
    <3>2. PICK k \in Nat : /\ DOMAIN rows = 1..k /\ DOMAIN q = 1..k+1 /\ q[k+1] = x
                           /\ \A i \in 1..k : q[i] = rows[i]
      BY <3>1 DEF AddedTo
    <3>3. \A i \in 1..k : rows[i].kind = "agent" /\ rows[i].turn = t => rows[i].segment # g
      <4>1. k = n
        BY <1>1, <3>2
      <4> QED BY <1>1, <1>3, <4>1 DEF AgentRows
    <3>4. \A i \in 1..k : rows[i].kind = "agent" /\ rows[i].turn = t => rows[i].segment < g
      <4>1. \A i \in 1..k : rows[i].kind = "agent" /\ rows[i].turn = t => rows[i].segment <= g
        BY <3>2 DEF Layered
      <4>2. \A i \in 1..k : rows[i].segment \in Nat
        BY <1>1, <1>2, <3>2
      <4> QED BY <3>3, <4>1, <4>2
    <3>5. SUFFICES ASSUME NEW i \in DOMAIN q, q[i].kind = "agent", q[i].turn = t
                   PROVE  /\ q[i].segment <= g
                          /\ \A j \in DOMAIN q : i < j /\ q[j].kind = "agent" /\ q[j].turn = t =>
                               q[i].segment < q[j].segment
      BY DEF Layered
    <3>6. CASE i = k + 1
      <4>1. q[i].segment = g
        BY <2>2, <3>2, <3>6
      <4>2. \A j \in DOMAIN q : ~(i < j)
        BY <3>2, <3>6
      <4> QED BY <4>1, <4>2
    <3>7. CASE i \in 1..k
      <4>1. q[i] = rows[i] /\ q[i].segment < g /\ q[i].segment \in Nat
        BY <1>1, <1>2, <3>2, <3>4, <3>5, <3>7
      <4>2. ASSUME NEW j \in DOMAIN q, i < j, q[j].kind = "agent", q[j].turn = t
            PROVE  q[i].segment < q[j].segment
        <5>1. CASE j = k + 1
          BY <2>2, <3>2, <4>1, <5>1
        <5>2. CASE j \in 1..k
          <6>1. j \in DOMAIN rows /\ i \in DOMAIN rows /\ q[j] = rows[j]
            BY <3>2, <3>7, <5>2
          <6> QED BY <3>5, <4>1, <4>2, <6>1 DEF Layered
        <5>3. j \in 1..k \/ j = k + 1
          BY <3>2
        <5> QED BY <5>1, <5>2, <5>3
      <4> QED BY <4>1, <4>2
    <3>8. i \in 1..k \/ i = k + 1
      BY <3>2
    <3> QED BY <3>6, <3>7, <3>8
  <2> QED BY <2>2, <2>5, <2>7, <2>8, <2>9
<1>4. CASE \E i \in 1..Len(rows) : FirstOf(i, AgentRows(rows, t, g)) /\ q = Grown(rows, i, e)
  <2>1. PICK i \in 1..Len(rows) : FirstOf(i, AgentRows(rows, t, g)) /\ q = Grown(rows, i, e)
    BY <1>4
  <2>2. i \in DOMAIN rows /\ rows[i].kind = "agent" /\ rows[i].turn = t /\ rows[i].segment = g
    BY <1>1, <2>1 DEF FirstOf, AgentRows
  <2>3. PICK x \in RowT : /\ q = [rows EXCEPT ![i] = x]
                          /\ x.kind = rows[i].kind /\ x.turn = rows[i].turn /\ x.segment = rows[i].segment
                          /\ x.text = rows[i].text \o e
    <3>1. PICK x \in RowT : /\ Grown(rows, i, e) = [rows EXCEPT ![i] = x]
                           /\ x.kind = rows[i].kind /\ x.turn = rows[i].turn /\ x.segment = rows[i].segment
                           /\ x.tool = rows[i].tool /\ x.text = rows[i].text \o e
      BY GrownIs
    <3> QED BY <2>1, <3>1
  <2>4. Changes(q, rows, x)
    <3>1. Sort(rows[i], x)
      BY <2>2, <2>3 DEF Sort, IsCard
    <3> QED BY <2>2, <2>3, <3>1 DEF Changes
  <2>5. q \in Seq(RowT)
    BY <2>4, ChangesRows
  <2>6. PutAt(q, rows, i, x)
    BY <2>3, PutIs
  <2>7. DOMAIN q = DOMAIN rows /\ q[i] = x /\ \A j \in DOMAIN rows : j # i => q[j] = rows[j]
    BY <2>6 DEF PutAt
  <2>8. \A j \in DOMAIN rows : i < j /\ rows[j].kind = "agent" => rows[j].turn # t
    <3>1. SUFFICES ASSUME NEW j \in DOMAIN rows, i < j, rows[j].kind = "agent", rows[j].turn = t PROVE FALSE
      OBVIOUS
    <3>2. g < rows[j].segment /\ rows[j].segment <= g
      BY <2>2, <3>1 DEF Layered
    <3>3. rows[j].segment \in Nat
      BY <1>1, <1>2
    <3> QED BY <3>2, <3>3
  <2>9. TextOfRows(q, t) = TextOfRows(rows, t) \o e
    <3>1. x.kind = "agent" /\ x.turn = t
      BY <2>2, <2>3
    <3>2. x.text = rows[i].text \o e
      BY <2>3
    <3>3. LastGrows(q, rows, i, x, t, e)
      BY <2>2, <2>6, <2>8, <3>1, <3>2 DEF LastGrows
    <3> QED BY <2>5, <3>3, TextGrows
  <2>10. ASSUME NEW id, id # t PROVE TextOfRows(q, id) = TextOfRows(rows, id)
    <3>1. TextAt(x, id) = << >> /\ TextAt(rows[i], id) = << >>
      BY <2>2, <2>3, <2>10 DEF TextAt
    <3>2. \A j \in DOMAIN rows : TextAt(q[j], id) = TextAt(rows[j], id)
      BY <2>7, <3>1
    <3> QED BY <2>5, <2>7, <3>2, TextSame
  <2>11. Layered(q, t, g)
    <3>1. \A j \in DOMAIN rows : q[j].kind = rows[j].kind /\ q[j].turn = rows[j].turn /\ q[j].segment = rows[j].segment
      BY <2>3, <2>7
    <3> QED BY <2>7, <3>1 DEF Layered
  <2> QED BY <2>2, <2>3, <2>4, <2>9, <2>10, <2>11
<1> QED BY <1>3, <1>4, DeltaRows

\* ... text ...
LEMMA MirrorText ==
  ASSUME NEW v \in ViewT, NEW c \in ChatT, NEW d \in ChatT, NEW w, NEW P, NEW perm, NEW a \in ActionT,
         NEW m \in Nat, NEW n, NEW p, NEW u, ChatGood(c, m, n, p, u),
         Mirror(v, c, P, perm), c.active.id # 0, v.proj = c.active.id, Moves0(c, d, a), TextShown(w, v, a),
         a.type \in TextTypes, a.type = "delta" => HasText(c.active), a.type # "delta" => a.text = << >>
  PROVE  Mirror(w, d, P, perm)
<1>1. /\ v.rows \in Seq(RowT) /\ v.proj \in Nat /\ v.segment \in Nat /\ a.text \in Seq(Nat)
      /\ w.turn = v.turn /\ w.proj = v.proj /\ w.segment = v.segment
      /\ w.rows = WithDelta(v.rows, v.proj, v.segment, a.text)
  BY DEF ViewT, TextShown, ActionT
<1>2. Layered(v.rows, v.proj, v.segment)
  BY DEF Mirror
<1>3. PICK q : q = w.rows
  OBVIOUS
<1>4. /\ \E x \in RowT : Changes(q, v.rows, x) /\ x.kind = "agent" /\ x.turn = v.proj
      /\ TextOfRows(q, v.proj) = TextOfRows(v.rows, v.proj) \o a.text
      /\ \A id : id # v.proj => TextOfRows(q, id) = TextOfRows(v.rows, id)
      /\ Layered(q, v.proj, v.segment)
  <2>1. PICK R \in Seq(RowT), t \in Nat, g \in Nat, e \in Seq(Nat) :
           R = v.rows /\ t = v.proj /\ g = v.segment /\ e = a.text
    BY <1>1
  <2>2. Layered(R, t, g) /\ q = WithDelta(R, t, g, e)
    BY <1>1, <1>2, <1>3, <2>1
  <2>3. /\ \E x \in RowT : Changes(q, R, x) /\ x.kind = "agent" /\ x.turn = t
        /\ TextOfRows(q, t) = TextOfRows(R, t) \o e
        /\ \A id : id # t => TextOfRows(q, id) = TextOfRows(R, id)
        /\ Layered(q, t, g)
    BY <2>2, DeltaChanges
  <2> QED BY <2>1, <2>3
<1>5. PICK x \in RowT : Changes(q, v.rows, x) /\ x.kind = "agent" /\ x.turn = v.proj
  BY <1>4
<1>6. PICK r : r = Reduced(c.active, a)
  OBVIOUS
<1>7. Turned(c, d, r) /\ d.past = c.past /\ d.active.id = c.active.id
  BY <1>6, MovesTurn
<1>8. c.active \in TurnT /\ TurnGood(c.active, n, p, u) /\ c.active \in TurnSet(c)
  BY ActiveIn
<1>9. CallParts(r) = CallParts(c.active) /\ TextOfTurn(r) = TextOfTurn(c.active) \o a.text
  BY <1>6, <1>8, TextReduced
<1>10. Ids(d) = Ids(c) /\ Tools(d) = Tools(c)
  BY <1>7, <1>9, TurnedIds, TurnedTools
<1>11. Users(q) = Users(v.rows) /\ Texted(q) \subseteq Texted(v.rows) \cup {v.proj}
  <2>1. \A id : id \in Users(q) <=> id \in Users(v.rows)
    BY <1>1, <1>5, ChangesTurns
  <2>2. \A id : id \in Texted(q) <=> id \in Texted(v.rows) \/ id = v.proj
    BY <1>1, <1>5, ChangesTurns
  <2> QED BY <2>1, <2>2
<1>12. Told(v.rows, c) /\ Texted(v.rows) \subseteq Ids(c) /\ v.proj \in Ids(c)
  BY <1>8 DEF Mirror, Told, Ids
<1>13. r.id = v.proj /\ TextOfRows(q, r.id) = TextOfTurn(r)
  BY <1>4, <1>7, <1>8, <1>9, <1>12 DEF Turned, Told
<1>14. Told(q, d)
  BY <1>4, <1>7, <1>11, <1>12, <1>13, ToldTurned
<1>15. Working(w.turn, d, P) /\ Asked(q, d, P)
  BY <1>1, <1>7, <1>10, <1>11 DEF Working, Asked, Mirror
<1>16. Failures(q, d)
  <2>1. ErrorsOf(q) = ErrorsOf(v.rows)
    BY <1>1, <1>5, ChangesNoError
  <2> QED BY <1>7, <2>1 DEF Failures, Mirror
<1>17. Carded(q, d, perm)
  <2>1. Carded(v.rows, c, perm) /\ ~IsCard(x)
    BY <1>5 DEF Mirror, IsCard
  <2>2. Carded(q, c, perm)
    BY <1>1, <1>5, <2>1, ChangesNoCard
  <2> QED BY <1>10, <2>2, CardedSame
<1> QED BY <1>1, <1>3, <1>4, <1>14, <1>15, <1>16, <1>17 DEF Mirror

-----------------------------------------------------------------------------
\* The fields of a card ...
LEMMA CardFacts ==
  \A kind, k, st, de, sm :
     LET r == Card(kind, k, st, de, sm) IN
     /\ r.kind = kind /\ r.tool = k /\ r.state = st /\ r.detail = de /\ r.summary = sm
  BY DEF Card, Row

\* ... and of the card for a part.
LEMMA CardForFacts ==
  ASSUME NEW p
  PROVE  IsCard(CardFor(p)) /\ CardFor(p).tool = p.tool /\ CardFor(p).summary = toolCallSummary(p.input)
<1>1. CASE p.status = "pending-confirmation"
  <2>1. PICK de : CardFor(p) = Card("approval", p.tool, "pending", de, toolCallSummary(p.input))
    BY <1>1 DEF CardFor
  <2> QED BY <2>1, CardFacts DEF IsCard
<1>2. CASE p.status # "pending-confirmation"
  <2>1. PICK de : CardFor(p) = Card("tool", p.tool, p.status, de, toolCallSummary(p.input))
    BY <1>2 DEF CardFor
  <2> QED BY <2>1, CardFacts DEF IsCard
<1> QED BY <1>1, <1>2

\* The calls that have a card.
LEMMA CallsAre ==
  ASSUME NEW rows, NEW k
  PROVE  k \in Calls(rows) <=> \E i \in DOMAIN rows : IsCard(rows[i]) /\ rows[i].tool = k
  BY DEF Calls

\* The card that was there before, or a blank one.
Previous(rows, k, p) ==
  \/ p = NoCard(k) /\ k \notin Calls(rows)
  \/ \E i \in DOMAIN rows : p = rows[i] /\ IsCard(p) /\ p.tool = k

\* A message about a call changes its card, or puts one at the end.
LEMMA ToolChanges ==
  ASSUME NEW v \in ViewT, NEW a \in ActionT, NEW q, q = ToolArrives(v, a).rows
  PROVE  \E p : /\ Previous(v.rows, a.tool, p) /\ CardAfter(p, a) \in RowT
                /\ Changes(q, v.rows, CardAfter(p, a))
                /\ q = Append(v.rows, CardAfter(p, a)) => a.tool \notin Calls(v.rows)
<1>1. PICK n \in Nat : n = Len(v.rows) /\ DOMAIN v.rows = 1..n
  BY LenProperties DEF ViewT
<1>2. v.rows \in Seq(RowT)
  BY DEF ViewT
<1>3. CASE CardsOf(v.rows, a.tool) = {} /\ q = Append(v.rows, CardAfter(NoCard(a.tool), a))
  <2>1. a.tool \notin Calls(v.rows)
    BY <1>1, <1>3, CallsAre DEF CardsOf
  <2>2. Previous(v.rows, a.tool, NoCard(a.tool))
    BY <2>1 DEF Previous
  <2>3. NoCard(a.tool).detail \in Words /\ NoCard(a.tool).summary \in Words
    <3>1. NoCard(a.tool).detail = "" /\ NoCard(a.tool).summary = ""
      BY DEF NoCard, Card, Row
    <3> QED BY <3>1 DEF Words
  <2>4. CardAfter(NoCard(a.tool), a) \in RowT
    BY <2>3, CardAfterType
  <2>5. Changes(q, v.rows, CardAfter(NoCard(a.tool), a))
    BY <1>3 DEF Changes
  <2> QED BY <2>1, <2>2, <2>4, <2>5
<1>4. CASE \E i \in 1..Len(v.rows) : /\ FirstOf(i, CardsOf(v.rows, a.tool))
                                     /\ q = [v.rows EXCEPT ![i] = CardAfter(v.rows[i], a)]
  <2>1. PICK i \in 1..n : /\ FirstOf(i, CardsOf(v.rows, a.tool))
                          /\ q = [v.rows EXCEPT ![i] = CardAfter(v.rows[i], a)]
    BY <1>1, <1>4
  <2>2. i \in DOMAIN v.rows /\ IsCard(v.rows[i]) /\ v.rows[i].tool = a.tool
    BY <1>1, <2>1 DEF FirstOf, CardsOf
  <2>3. PICK p : p = v.rows[i]
    OBVIOUS
  <2>4. p \in RowT
    BY <1>1, <1>2, <2>3, ElementOfSeq
  <2>5. p.detail \in Words /\ p.summary \in Words
    BY <2>4 DEF RowT
  <2>6. CardAfter(p, a) \in RowT
    BY <2>5, CardAfterType
  <2>7. Previous(v.rows, a.tool, p)
    BY <2>2, <2>3 DEF Previous
  <2>8. Sort(p, CardAfter(p, a))
    <3>1. IsCard(CardAfter(p, a)) /\ CardAfter(p, a).tool = a.tool
      BY CardAfterTool
    <3> QED BY <2>2, <2>3, <3>1 DEF Sort, IsCard
  <2>9. Changes(q, v.rows, CardAfter(p, a))
    BY <2>1, <2>2, <2>3, <2>8 DEF Changes
  <2>10. q # Append(v.rows, CardAfter(p, a))
    <3>1. DOMAIN q = 1..n
      BY <1>1, <2>1
    <3>2. PICK z : z = Append(v.rows, CardAfter(p, a))
      OBVIOUS
    <3>3. AddedTo(z, v.rows, CardAfter(p, a))
      BY <1>2, <2>6, <3>2, AppendAdds
    <3>4. PICK k \in Nat : DOMAIN v.rows = 1..k /\ DOMAIN z = 1..k+1
      BY <3>3 DEF AddedTo
    <3>5. k = n
      BY <1>1, <3>4
    <3>6. n + 1 \in DOMAIN z /\ n + 1 \notin DOMAIN q
      BY <3>1, <3>4, <3>5
    <3> QED BY <3>2, <3>6
  <2> QED BY <2>6, <2>7, <2>9, <2>10
<1> QED BY <1>3, <1>4, ToolShape

\* One card for a call, after the card of call k came or changed.
LEMMA ChangesOneCard ==
  ASSUME NEW rows \in Seq(RowT), NEW q, NEW x \in RowT, Changes(q, rows, x), IsCard(x),
         q = Append(rows, x) => x.tool \notin Calls(rows), OneCard(rows)
  PROVE  OneCard(q)
<1>1. CASE q = Append(rows, x)
  <2>1. AddedTo(q, rows, x)
    BY <1>1, AppendAdds
  <2>2. PICK n \in Nat : /\ DOMAIN rows = 1..n /\ DOMAIN q = 1..n+1 /\ q[n+1] = x
                         /\ \A i \in 1..n : q[i] = rows[i]
    BY <2>1 DEF AddedTo
  <2>3. \A i \in 1..n : IsCard(rows[i]) => rows[i].tool # x.tool
    BY <1>1, <2>2, CallsAre
  <2>4. SUFFICES ASSUME NEW i \in 1..n+1, NEW j \in 1..n+1, IsCard(q[i]), IsCard(q[j]), q[i].tool = q[j].tool
                 PROVE  i = j
    BY <2>2 DEF OneCard
  <2>5. (i \in 1..n \/ i = n+1) /\ (j \in 1..n \/ j = n+1)
    OBVIOUS
  <2>6. CASE i \in 1..n /\ j \in 1..n
    BY <2>2, <2>4, <2>6 DEF OneCard
  <2>7. CASE i \in 1..n /\ j = n+1
    BY <2>2, <2>3, <2>4, <2>7
  <2>8. CASE i = n+1 /\ j \in 1..n
    BY <2>2, <2>3, <2>4, <2>8
  <2> QED BY <2>5, <2>6, <2>7, <2>8
<1>2. CASE \E i \in DOMAIN rows : q = [rows EXCEPT ![i] = x] /\ Sort(rows[i], x)
  <2>1. PICK k \in DOMAIN rows : q = [rows EXCEPT ![k] = x] /\ Sort(rows[k], x)
    BY <1>2
  <2>2. DOMAIN q = DOMAIN rows /\ q[k] = x /\ \A j \in DOMAIN rows : j # k => q[j] = rows[j]
    BY <2>1
  <2>3. IsCard(rows[k]) /\ rows[k].tool = x.tool
    BY <2>1 DEF Sort
  <2>4. \A j \in DOMAIN rows : (IsCard(q[j]) <=> IsCard(rows[j])) /\ (IsCard(q[j]) => q[j].tool = rows[j].tool)
    BY <2>2, <2>3
  <2> QED BY <2>2, <2>4 DEF OneCard
<1> QED BY <1>1, <1>2 DEF Changes

\* x is the card for what became of its call when the chat c became d.
CallChange(c, d, x, perm) ==
  /\ \A p \in Tools(d) : p.tool # x.tool => p \in Tools(c)
  /\ \A p \in Tools(c) : \E r \in Tools(d) : r.tool = p.tool
  /\ \E r \in Tools(d) : r.tool = x.tool
  /\ \A p \in Tools(d) : p.tool = x.tool /\ Visible(p, perm) => x = CardFor(p)
  /\ \A p \in Tools(d) : p.tool = x.tool /\ p.status = "streaming" => x.summary = ""

\* ... and so the cards show the calls of the chat again.
LEMMA CardedCall ==
  ASSUME NEW rows \in Seq(RowT), NEW q, NEW x \in RowT, Changes(q, rows, x), IsCard(x),
         q = Append(rows, x) => x.tool \notin Calls(rows),
         NEW c, NEW d, NEW perm, Carded(rows, c, perm), CallChange(c, d, x, perm)
  PROVE  Carded(q, d, perm)
<1>1. /\ \A i \in DOMAIN q : q[i] = x \/ (i \in DOMAIN rows /\ q[i] = rows[i])
      /\ \A i \in DOMAIN rows : i \in DOMAIN q /\ (q[i] = rows[i] \/ (q[i] = x /\ Sort(rows[i], x)))
      /\ \E i \in DOMAIN q : q[i] = x
  BY ChangesRows
<1>2. OneCard(rows) /\ Known(rows, c) /\ Shown(rows, c, perm) /\ Plain(rows, c)
  BY DEF Carded
<1>3. OneCard(q)
  BY <1>2, ChangesOneCard
<1>4. Known(q, d)
  <2>1. SUFFICES ASSUME NEW k \in Calls(q) PROVE \E p \in Tools(d) : p.tool = k
    BY DEF Known
  <2>2. PICK i \in DOMAIN q : IsCard(q[i]) /\ q[i].tool = k
    BY CallsAre
  <2>3. CASE q[i] = x
    BY <2>2, <2>3 DEF CallChange
  <2>4. CASE i \in DOMAIN rows /\ q[i] = rows[i]
    <3>1. k \in Calls(rows)
      BY <2>2, <2>4, CallsAre
    <3> QED BY <1>2, <3>1 DEF Known, CallChange
  <2> QED BY <1>1, <2>3, <2>4
<1>5. Shown(q, d, perm)
  <2>1. SUFFICES ASSUME NEW p \in Tools(d), Visible(p, perm) PROVE \E j \in DOMAIN q : q[j] = CardFor(p)
    BY DEF Shown
  <2>2. CASE p.tool = x.tool
    BY <1>1, <2>1, <2>2 DEF CallChange
  <2>3. CASE p.tool # x.tool
    <3>1. PICK j \in DOMAIN rows : rows[j] = CardFor(p)
      BY <1>2, <2>1, <2>3 DEF CallChange, Shown
    <3>2. ~Sort(rows[j], x)
      BY <2>3, <3>1, CardForFacts DEF Sort
    <3> QED BY <1>1, <3>1, <3>2
  <2> QED BY <2>2, <2>3
<1>6. Plain(q, d)
  <2>1. SUFFICES ASSUME NEW p \in Tools(d), NEW j \in DOMAIN q, p.status = "streaming", IsCard(q[j]), q[j].tool = p.tool
                 PROVE  q[j].summary = ""
    BY DEF Plain
  <2>2. CASE q[j] = x
    BY <2>1, <2>2 DEF CallChange
  <2>3. CASE q[j] # x /\ p.tool # x.tool
    <3>1. j \in DOMAIN rows /\ q[j] = rows[j] /\ p \in Tools(c)
      BY <1>1, <2>3 DEF CallChange
    <3> QED BY <1>2, <2>1, <3>1 DEF Plain
  <2>4. CASE p.tool = x.tool
    <3>1. PICK i \in DOMAIN q : q[i] = x
      BY <1>1
    <3>2. i = j
      BY <1>3, <2>1, <2>4, <3>1 DEF OneCard
    <3> QED BY <2>2, <3>1, <3>2
  <2> QED BY <2>2, <2>3, <2>4
<1> QED BY <1>3, <1>4, <1>5, <1>6 DEF Carded

-----------------------------------------------------------------------------
\* The start of a call gives it such a card ...
LEMMA StartCallChange ==
  ASSUME NEW c, NEW d, NEW a \in ActionT, a.type = "toolCallStart", NEW perm, NEW p, NEW x, x = CardAfter(p, a),
         \A y : y \in Tools(d) <=> y \in Tools(c) \/ y = ToolPart(a.tool),
         \A y \in Tools(c) : y.tool # a.tool
  PROVE  CallChange(c, d, x, perm)
<1>1. x = Card("tool", a.tool, "streaming", "", "")
  BY DEF CardAfter
<1>2. x.tool = a.tool /\ x.summary = ""
  BY <1>1 DEF Card, Row
<1>3. PICK z : z = ToolPart(a.tool)
  OBVIOUS
<1>4. z.tool = a.tool /\ z.status = "streaming" /\ z \in Tools(d)
  BY <1>3, PartFacts
<1>5. \A y \in Tools(d) : y.tool = a.tool => y = z
  BY <1>3
<1>6. \A y \in Tools(d) : y.tool # a.tool => y \in Tools(c)
  BY <1>3, <1>4
<1>7. ~Visible(z, perm)
  BY <1>4 DEF Visible
<1> QED BY <1>2, <1>4, <1>5, <1>6, <1>7 DEF CallChange

\* The text of a card.
LEMMA CardWords ==
  /\ \A b : toolInvocationDetail("command", "running", b) = "command"
  /\ \A b : toolInvocationDetail("opaque", "running", b) = "running"
  /\ toolCallSummary("command") = "command" /\ toolCallSummary("opaque") = ""
  /\ \A b : OrElse(toolCallSummary("command"), b) = "command"
  /\ \A b : OrElse(toolCallSummary("opaque"), b) = b
  /\ \A s, b : OrElse(toolResultDetail(s), b) = toolResultDetail(s)
<1>1. /\ \A b : toolInvocationDetail("command", "running", b) = "command"
      /\ \A b : toolInvocationDetail("opaque", "running", b) = "running"
  BY DEF toolInvocationDetail, OrElse
<1>2. toolCallSummary("command") = "command" /\ toolCallSummary("opaque") = ""
  BY DEF toolCallSummary
<1>3. /\ \A b : OrElse("command", b) = "command"
      /\ \A b : OrElse("", b) = b
  BY DEF OrElse
<1>4. \A s, b : OrElse(toolResultDetail(s), b) = toolResultDetail(s)
  BY DEF OrElse, toolResultDetail
<1> QED BY <1>1, <1>2, <1>3, <1>4

\* The card says of the call what its part says.
LEMMA ReadyCard ==
  ASSUME NEW a \in ActionT, a.type = "toolCallReady", a.note \in {"command", "opaque"},
         a.tool = Permission => a.note = "command",
         NEW p, a.tool # Permission => p.summary = "",
         NEW z, z.tool = a.tool, z.input = a.note,
         z.status = IF a.tool = Permission THEN "pending-confirmation" ELSE "running"
  PROVE  CardAfter(p, a) = CardFor(z)
<1>1. PICK de, sm : /\ de = toolInvocationDetail(a.note, "running", p.detail)
                    /\ sm = OrElse(toolCallSummary(a.note), p.summary)
  OBVIOUS
<1>2. CASE a.tool = Permission
  <2>1. CardAfter(p, a) = Card("approval", a.tool, "pending", de, sm)
    BY <1>1, <1>2 DEF CardAfter
  <2>2. CardFor(z) = Card("approval", z.tool, "pending",
            toolInvocationDetail(z.input, "running", ""), toolCallSummary(z.input))
    BY <1>2 DEF CardFor
  <2>3. a.note = "command" /\ z.input = "command"
    BY <1>2
  <2>4. toolInvocationDetail(z.input, "running", "") = de /\ toolCallSummary(z.input) = sm
    BY <1>1, <2>3, CardWords
  <2> QED BY <2>1, <2>2, <2>4
<1>3. CASE a.tool # Permission
  <2>1. CardAfter(p, a) = Card("tool", a.tool, "running", de, sm)
    BY <1>1, <1>3 DEF CardAfter
  <2>2. z.status = "running" /\ z.status \notin Finished /\ z.input # "" /\ p.summary = ""
    BY <1>3 DEF Finished
  <2>3. CardFor(z) = Card("tool", z.tool, "running",
            toolInvocationDetail(z.input, "running", ""), toolCallSummary(z.input))
    BY <2>2 DEF CardFor
  <2>4. CASE a.note = "command"
    <3>1. toolInvocationDetail(z.input, "running", "") = de /\ toolCallSummary(z.input) = sm
      BY <1>1, <2>4, CardWords
    <3> QED BY <2>1, <2>3, <3>1
  <2>5. CASE a.note = "opaque"
    <3>1. toolInvocationDetail(z.input, "running", "") = de /\ toolCallSummary(z.input) = sm
      BY <1>1, <2>2, <2>5, CardWords
    <3> QED BY <2>1, <2>3, <3>1
  <2> QED BY <2>4, <2>5
<1> QED BY <1>2, <1>3

\* ... a completed call the card for its part ...
LEMMA CompleteCard ==
  ASSUME NEW a \in ActionT, a.type = "toolCallComplete", a.note \in {"completed", "failed"},
         NEW p, NEW z, z.tool = a.tool, p.summary = toolCallSummary(z.input), z.status = a.note
  PROVE  CardAfter(p, a) = CardFor(z)
<1>1. CardAfter(p, a) = Card("tool", a.tool, a.note, OrElse(toolResultDetail(a.note), p.detail), p.summary)
  BY DEF CardAfter
<1>2. OrElse(toolResultDetail(a.note), p.detail) = toolResultDetail(a.note)
  BY CardWords
<1>3. z.status \in Finished /\ z.status # "pending-confirmation"
  BY DEF Finished
<1>4. CardFor(z) = Card("tool", z.tool, z.status, toolResultDetail(z.status), toolCallSummary(z.input))
  BY <1>3 DEF CardFor
<1> QED BY <1>1, <1>2, <1>4

\* A call of the active turn is a call of the chat.
LEMMA CallIsTool ==
  ASSUME NEW c \in ChatT, c.active.id # 0, NEW i \in DOMAIN c.active.parts, c.active.parts[i].kind = "tool"
  PROVE  c.active.parts[i] \in Tools(c)
<1>1. c.active \in TurnSet(c)
  BY DEF TurnSet
<1> QED BY <1>1, ToolsAre

\* ... and whatever settles a call, such a card.
LEMMA SettleCallChange ==
  ASSUME NEW c \in ChatT, NEW d, NEW a \in ActionT, NEW m, NEW n \in Nat, NEW u,
         ChatGood(c, m, n, Permission, u), c.active.id # 0, a.turn = c.active.id,
         a.type \in Settles, Says(a, m, n, Permission), Meets(a, c, Permission),
         a.type = "toolCallConfirmed" => a.tool = Permission,
         a.type = "toolCallComplete" => a.tool # Permission,
         \A x : x \in Tools(d) <=> \E y \in Tools(c) : x = Changed(y, a),
         NEW rows, Carded(rows, c, Permission), NEW p, Previous(rows, a.tool, p), NEW x, x = CardAfter(p, a)
  PROVE  CallChange(c, d, x, Permission)
<1>1. x.tool = a.tool
  BY CardAfterTool
<1>2. PICK k : k = a.tool
  OBVIOUS
<1>3. PICK y \in Tools(c) : /\ y.tool = k
                            /\ a.type = "toolCallReady" /\ k # Permission => y.status = "streaming"
                            /\ a.type = "toolCallComplete" => y.status = "running"
  <2>0. /\ a.type \in {"toolCallReady", "toolCallConfirmed"} => HasCall(c.active, k)
        /\ a.type = "toolCallReady" /\ k # Permission => CallIn(c.active, k, "streaming")
        /\ a.type = "toolCallComplete" => CallIn(c.active, k, "running")
    BY <1>2 DEF Meets, Settles
  <2>1. CASE a.type = "toolCallComplete"
    <3>1. PICK i \in DOMAIN c.active.parts : /\ c.active.parts[i].kind = "tool" /\ c.active.parts[i].tool = k
                                             /\ c.active.parts[i].status = "running"
      BY <2>0, <2>1 DEF CallIn
    <3> QED BY <2>1, <3>1, CallIsTool
  <2>2. CASE a.type = "toolCallReady" /\ k # Permission
    <3>1. PICK i \in DOMAIN c.active.parts : /\ c.active.parts[i].kind = "tool" /\ c.active.parts[i].tool = k
                                             /\ c.active.parts[i].status = "streaming"
      BY <2>0, <2>2 DEF CallIn
    <3> QED BY <2>2, <3>1, CallIsTool
  <2>3. CASE a.type = "toolCallConfirmed" \/ (a.type = "toolCallReady" /\ k = Permission)
    <3>1. PICK i \in DOMAIN c.active.parts : c.active.parts[i].kind = "tool" /\ c.active.parts[i].tool = k
      BY <2>0, <2>3 DEF HasCall
    <3> QED BY <2>3, <3>1, CallIsTool
  <2> QED BY <2>1, <2>2, <2>3 DEF Settles
<1>4. \A w \in Tools(c) : w.tool = k => w = y
  BY <1>3, OnePart
<1>5. \A w \in Tools(c) : ChangedTo(Changed(w, a), w, a)
  BY ToolTypes0, ChangedIs
<1>6. \A w \in Tools(c) : Changed(w, a).tool = w.tool /\ (w.tool # k => Changed(w, a) = w)
  <2>1. a.type # "delta"
    BY DEF Settles
  <2> QED BY <1>2, <1>5, <2>1 DEF ChangedTo
<1>7. PICK z : z = Changed(y, a)
  OBVIOUS
<1>8. z \in Tools(d) /\ z.tool = k /\ ChangedTo(z, y, a)
  BY <1>3, <1>5, <1>6, <1>7
<1>9. \A w \in Tools(d) : w.tool = k => w = z
  BY <1>4, <1>6, <1>7
<1>10. \A w \in Tools(d) : w.tool # k => w \in Tools(c)
  BY <1>6
<1>11. \A w \in Tools(c) : \E r \in Tools(d) : r.tool = w.tool
  BY <1>6
<1>12. OneCard(rows) /\ Shown(rows, c, Permission) /\ Plain(rows, c)
  BY DEF Carded
<1>13. z.status # "streaming" /\ (Visible(z, Permission) => x = CardFor(z))
  <2>1. CASE a.type = "toolCallReady"
    <3>1. z.input = a.note /\ z.status = IF a.tool = Permission THEN "pending-confirmation" ELSE "running"
      BY <1>2, <1>3, <1>8, <2>1 DEF ChangedTo
    <3>2. a.note \in {"command", "opaque"} /\ (a.tool = Permission => a.note = "command")
      BY <2>1 DEF Says
    <3>3. ASSUME k # Permission PROVE p.summary = ""
      <4>1. y.status = "streaming"
        BY <1>3, <2>1, <3>3
      <4>2. CASE p = NoCard(a.tool)
        BY <4>2 DEF NoCard, Card, Row
      <4>3. CASE \E i \in DOMAIN rows : p = rows[i] /\ IsCard(p) /\ p.tool = a.tool
        BY <1>2, <1>3, <1>12, <4>1, <4>3 DEF Plain
      <4> QED BY <4>2, <4>3 DEF Previous
    <3>4. x = CardFor(z)
      BY <1>2, <1>8, <2>1, <3>1, <3>2, <3>3, ReadyCard
    <3> QED BY <3>1, <3>4
  <2>2. CASE a.type = "toolCallConfirmed"
    <3>1. z.status = IF a.note = "approved" THEN "running" ELSE "cancelled"
      BY <1>2, <1>3, <1>8, <2>2 DEF ChangedTo
    <3>2. z.tool = Permission
      BY <1>2, <1>8, <2>2
    <3> QED BY <3>1, <3>2 DEF Visible
  <2>3. CASE a.type = "toolCallComplete"
    <3>1. z.input = y.input /\ z.status = a.note
      BY <1>2, <1>3, <1>8, <2>3 DEF ChangedTo
    <3>2. a.note \in {"completed", "failed"} /\ k # Permission
      BY <1>2, <2>3 DEF Says
    <3>3. Visible(y, Permission)
      BY <1>3, <2>3, <3>2 DEF Visible
    <3>4. PICK j \in DOMAIN rows : rows[j] = CardFor(y)
      BY <1>12, <3>3 DEF Shown
    <3>5. IsCard(rows[j]) /\ rows[j].tool = k /\ rows[j].summary = toolCallSummary(y.input)
      BY <1>3, <3>4, CardForFacts
    <3>6. PICK i \in DOMAIN rows : p = rows[i] /\ IsCard(p) /\ p.tool = k
      BY <1>2, <3>5, CallsAre DEF Previous
    <3>7. i = j
      BY <1>12, <3>5, <3>6 DEF OneCard
    <3>8. p.summary = toolCallSummary(z.input)
      BY <3>1, <3>5, <3>6, <3>7
    <3>9. x = CardFor(z)
      BY <1>2, <1>8, <2>3, <3>1, <3>2, <3>8, CompleteCard
    <3> QED BY <3>1, <3>2, <3>9
  <2> QED BY <2>1, <2>2, <2>3 DEF Settles
<1> QED BY <1>1, <1>2, <1>8, <1>9, <1>10, <1>11, <1>13 DEF CallChange

-----------------------------------------------------------------------------
\* A tool call starts or goes on.
LEMMA MirrorCall ==
  ASSUME NEW v \in ViewT, NEW c \in ChatT, NEW d \in ChatT, NEW w, NEW P, NEW a \in ActionT,
         NEW m \in Nat, NEW n \in Nat, NEW u, ChatGood(c, m, n, Permission, u),
         Mirror(v, c, P, Permission), c.active.id # 0, a.turn = c.active.id,
         v.proj = c.active.id, Moves0(c, d, a), ToolShown(w, v, a),
         a.type \in ToolTypes, Says(a, m, n, Permission), Meets(a, c, Permission),
         a.type = "toolCallConfirmed" => a.tool = Permission,
         a.type = "toolCallComplete" => a.tool # Permission
  PROVE  Mirror(w, d, P, Permission)
<1>1. /\ v.rows \in Seq(RowT) /\ v.proj \in Nat /\ v.segment \in Nat
      /\ w.turn = v.turn /\ w.proj = v.proj /\ w.rows = ToolArrives(v, a).rows
      /\ w.segment \in Nat /\ v.segment <= w.segment
  BY DEF ViewT, ToolShown
<1>2. PICK q : q = w.rows
  OBVIOUS
<1>3. PICK p : /\ Previous(v.rows, a.tool, p) /\ CardAfter(p, a) \in RowT
               /\ Changes(q, v.rows, CardAfter(p, a))
               /\ q = Append(v.rows, CardAfter(p, a)) => a.tool \notin Calls(v.rows)
  BY <1>1, <1>2, ToolChanges
<1>4. PICK x \in RowT : x = CardAfter(p, a)
  BY <1>3
<1>5. Changes(q, v.rows, x) /\ x.tool = a.tool /\ IsCard(x) /\ x.kind \notin {"user", "agent", "error"}
  BY <1>3, <1>4, CardAfterTool DEF IsCard
<1>6. PICK r : r = Reduced(c.active, a)
  OBVIOUS
<1>7. Turned(c, d, r) /\ d.past = c.past /\ d.active.id = c.active.id
  BY <1>6, MovesTurn
<1>8. c.active \in TurnT /\ c.active \in TurnSet(c)
  BY ActiveIn
<1>9. Ids(d) = Ids(c)
  BY <1>7, TurnedIds
<1>10. a.type = "toolCallStart" \/ a.type \in Settles
  BY DEF ToolTypes, Settles
<1>11. TextOfTurn(r) = TextOfTurn(c.active)
  BY <1>6, <1>8, <1>10, CallReduced, SettledParts
<1>12. /\ q \in Seq(RowT) /\ \A id : TextOfRows(q, id) = TextOfRows(v.rows, id)
       /\ \A t, g, h \in Nat : Layered(v.rows, t, g) /\ g <= h => Layered(q, t, h)
  BY <1>1, <1>5, ChangesRows, ChangesNoText
<1>13. Users(q) = Users(v.rows) /\ Texted(q) = Texted(v.rows)
  <2>1. \A id : id \in Users(q) <=> id \in Users(v.rows)
    BY <1>1, <1>5, ChangesTurns
  <2>2. \A id : id \in Texted(q) <=> id \in Texted(v.rows)
    BY <1>1, <1>5, ChangesTurns
  <2> QED BY <2>1, <2>2
<1>14. Told(v.rows, c) /\ Texted(v.rows) \subseteq Ids(c)
  BY DEF Mirror, Told
<1>15. TextOfRows(q, r.id) = TextOfTurn(r)
  BY <1>7, <1>8, <1>11, <1>12, <1>14 DEF Turned, Told
<1>16. Told(q, d)
  BY <1>7, <1>12, <1>13, <1>14, <1>15, ToldTurned
<1>17. Working(w.turn, d, P) /\ Asked(q, d, P)
  BY <1>1, <1>7, <1>9, <1>13 DEF Working, Asked, Mirror
<1>18. Layered(q, w.proj, w.segment)
  BY <1>1, <1>12 DEF Mirror
<1>19. Failures(q, d)
  <2>1. ErrorsOf(q) = ErrorsOf(v.rows)
    BY <1>1, <1>5, ChangesNoError
  <2> QED BY <1>7, <2>1 DEF Failures, Mirror
<1>20. Carded(v.rows, c, Permission)
  BY DEF Mirror
<1>21. CallChange(c, d, x, Permission)
  <2>1. CASE a.type = "toolCallStart"
    <3>1. CallParts(r) = CallParts(c.active) \cup {ToolPart(a.tool)}
      BY <1>6, <1>8, <2>1, CallReduced
    <3>2. \A y : y \in Tools(d) <=> y \in Tools(c) \/ y = ToolPart(a.tool)
      BY <1>7, <3>1, ToolsStart
    <3>3. \A t \in TurnSet(c) : ~HasCall(t, a.tool)
      BY <2>1 DEF Meets
    <3>4. \A y \in Tools(c) : y.tool # a.tool
      BY <3>3, ToolsAre DEF HasCall
    <3> QED BY <1>4, <2>1, <3>2, <3>4, StartCallChange
  <2>2. CASE a.type \in Settles
    <3>1. CallParts(r) = {Changed(y, a) : y \in CallParts(c.active)}
      BY <1>6, <1>8, <2>2, SettledParts
    <3>2. a.tool \in 1..n
      BY <2>2 DEF Says
    <3>3. HasCall(c.active, a.tool)
      BY <2>2 DEF Meets, Settles, CallIn, HasCall
    <3>4. \A y : y \in Tools(d) <=> \E z \in Tools(c) : y = Changed(z, a)
      BY <1>7, <2>2, <3>1, <3>2, <3>3, ToolsSettle
    <3> QED BY <1>3, <1>4, <1>20, <2>2, <3>4, SettleCallChange
  <2> QED BY <1>10, <2>1, <2>2
<1>22. Carded(q, d, Permission)
  BY <1>1, <1>3, <1>4, <1>5, <1>20, <1>21, CardedCall
<1> QED BY <1>2, <1>16, <1>17, <1>18, <1>19, <1>22 DEF Mirror

\* What belongs to a turn the window is not in, when the window is v.
ForeignTo(v, m) ==
  CASE m.msg.type = "turnStarted" -> m.odd
    [] m.msg.type \in {"turnComplete", "turnCancelled"} -> v.turn \notin {0, m.msg.turn}
    [] OTHER -> m.odd \/ m.msg.turn # v.proj

\* More turns may be about to start.
LEMMA AskedMore ==
  ASSUME NEW v, NEW c, NEW P, NEW Q, NEW perm, Mirror(v, c, P, perm), P \subseteq Q
  PROVE  Mirror(v, c, Q, perm)
  BY DEF Mirror, Working, Asked

\* An action keeps the window in step with the chat.
LEMMA MirrorStep ==
  ASSUME NEW v \in ViewT, NEW m \in EntryT, NEW k \in Nat, NEW n \in Nat, NEW u,
         WasGood(m, k, n, Permission, u), m.msg.type # "snapshot", ~ForeignTo(v, m),
         NEW P, NEW Q, Mirror(v, m.was, P, Permission),
         P \subseteq Q \cup (IF m.msg.type = "turnStarted" THEN {m.msg.turn} ELSE {})
  PROVE  Mirror(Projected(v, m), Applied(m.was, m.msg), Q, Permission)
<1>1. PICK c \in ChatT : c = m.was
  BY DEF EntryT
<1>2. PICK a \in ActionT : a = m.msg
  BY DEF EntryT
<1>3. PICK w : w = Projected(v, m)
  OBVIOUS
<1>4. PICK d \in ChatT : d = Applied(c, a)
  BY AppliedType
<1>5. /\ ChatGood(c, k, n, Permission, u) /\ SentBy(m, Permission, u) /\ Says(a, k, n, Permission)
      /\ Meets(a, c, Permission) /\ IsOdd(m)
  BY <1>1, <1>2 DEF WasGood, MessageGood
<1>6. a.turn \in 1..k /\ a.turn \in Nat /\ a.turn # 0
  <2>1. a.turn \in 1..k
    BY <1>2, <1>5 DEF Says
  <2> QED BY <2>1
<1>7. /\ a.type = "turnStarted" => Starts0(c, d, a.turn)
      /\ a.type # "turnStarted" /\ a.turn # c.active.id => d = c
      /\ a.type # "turnStarted" /\ a.turn = c.active.id /\ Ends(a) => Ends0(c, d, a.type = "error")
      /\ a.type # "turnStarted" /\ a.turn = c.active.id /\ ~Ends(a) => Moves0(c, d, a)
  BY <1>4, AppliedIs
<1>8. CASE a.type = "turnStarted"
  <2>1. StartShown(w, v, a)
    BY <1>2, <1>3, <1>8, ProjectedIs DEF TextTypes, EndTypes, ToolTypes
  <2>2. c.active.id = 0 /\ a.turn \notin Ids(c)
    BY <1>1, <1>2, <1>5, <1>8 DEF ForeignTo, IsOdd, Meets
  <2>3. P \subseteq Q \cup {a.turn}
    BY <1>2, <1>8
  <2>4. PICK t \in Nat : t = a.turn
    BY <1>6
  <2>5. Mirror(v, c, P, Permission) /\ Starts0(c, d, t)
    BY <1>1, <1>7, <1>8, <2>4
  <2>6. Mirror(w, d, Q, Permission)
    BY <1>6, <2>1, <2>2, <2>3, <2>4, <2>5, MirrorStart
  <2> QED BY <1>1, <1>2, <1>3, <1>4, <2>6
<1>9. CASE a.type # "turnStarted"
  <2>1. Mirror(v, c, Q, Permission)
    BY <1>1, <1>2, <1>9, AskedMore
  <2>2. CASE a.type \in EndTypes
    <3>1. EndShown(w, v)
      BY <1>2, <1>3, <2>2, ProjectedIs DEF TextTypes, EndTypes, ToolTypes
    <3>2. v.turn \in {0, a.turn}
      BY <1>2, <2>2 DEF ForeignTo, EndTypes
    <3>3. CASE a.turn = c.active.id
      <4>1. Ends0(c, d, FALSE)
        BY <1>7, <2>2, <3>3 DEF Ends, EndTypes
      <4>2. Mirror(w, d, Q, Permission)
        BY <1>5, <1>6, <2>1, <3>1, <3>3, <4>1, MirrorTurnEnds
      <4> QED BY <1>1, <1>2, <1>3, <1>4, <4>2
    <3>4. CASE a.turn # c.active.id
      <4>1. Mirror(w, c, Q, Permission)
        BY <1>5, <2>1, <3>1, <3>2, <3>4, MirrorTurnStays
      <4> QED BY <1>1, <1>2, <1>3, <1>4, <1>7, <1>9, <3>4, <4>1
    <3> QED BY <3>3, <3>4
  <2>3. CASE a.type \notin EndTypes
    <3>1. a.turn = c.active.id /\ a.turn = v.proj
      BY <1>1, <1>2, <1>5, <1>9, <2>3 DEF ForeignTo, IsOdd, EndTypes
    <3>2. CASE a.type = "error"
      <4>1. ErrorShown(w, v)
        BY <1>2, <1>3, <3>2, ProjectedIs DEF TextTypes, EndTypes, ToolTypes
      <4>2. Ends0(c, d, TRUE)
        BY <1>7, <3>1, <3>2 DEF Ends
      <4>3. Mirror(w, d, Q, Permission)
        BY <1>5, <1>6, <2>1, <3>1, <4>1, <4>2, MirrorError
      <4> QED BY <1>1, <1>2, <1>3, <1>4, <4>3
    <3>3. CASE a.type \in TextTypes
      <4>1. TextShown(w, v, a)
        BY <1>2, <1>3, <3>3, ProjectedIs DEF TextTypes, EndTypes, ToolTypes
      <4>2. Moves0(c, d, a)
        BY <1>7, <1>9, <3>1, <3>3 DEF Ends, TextTypes
      <4>3. (a.type = "delta" => HasText(c.active)) /\ (a.type # "delta" => a.text = << >>)
        BY <1>5, <3>1 DEF Meets, Says
      <4>4. Mirror(w, d, Q, Permission)
        BY <1>5, <1>6, <2>1, <3>1, <3>3, <4>1, <4>2, <4>3, MirrorText
      <4> QED BY <1>1, <1>2, <1>3, <1>4, <4>4
    <3>4. CASE a.type \in ToolTypes
      <4>1. ToolShown(w, v, a)
        BY <1>2, <1>3, <3>4, ProjectedIs DEF TextTypes, EndTypes, ToolTypes
      <4>2. Moves0(c, d, a)
        BY <1>7, <1>9, <3>1, <3>4 DEF Ends, ToolTypes
      <4>3. a.type = "toolCallConfirmed" => a.tool = Permission
        BY <1>2, <1>5 DEF SentBy
      <4>4. a.type = "toolCallComplete" => a.tool # Permission
        BY <1>2, <1>5 DEF SentBy
      <4>5. Mirror(w, d, Q, Permission)
        BY <1>5, <1>6, <2>1, <3>1, <3>4, <4>1, <4>2, <4>3, <4>4, MirrorCall
      <4> QED BY <1>1, <1>2, <1>3, <1>4, <4>5
    <3>5. a.type \in Types /\ a.type # "snapshot"
      BY <1>2 DEF ActionT
    <3> QED BY <1>9, <2>3, <3>2, <3>3, <3>4, <3>5 DEF Types, TextTypes, EndTypes, ToolTypes
  <2> QED BY <2>2, <2>3
<1> QED BY <1>8, <1>9

-----------------------------------------------------------------------------
\* A sequence of one.
LEMMA OneOf ==
  ASSUME NEW x
  PROVE  <<x>> # << >> /\ <<x>>[1] = x
  OBVIOUS

\* The row of a part of a call is the card for it ...
LEMMA CardRow ==
  ASSUME NEW p, CardsOfPart(p) # << >>
  PROVE  CardsOfPart(p)[1] = CardFor(p)
<1>1. ~(p.status = "cancelled" \/ (p.tool = Permission /\ p.status # "pending-confirmation"))
  BY DEF CardsOfPart
<1>2. CASE p.status = "pending-confirmation"
  <2>1. CardsOfPart(p) = <<CardFor(p)>>
    BY <1>1, <1>2 DEF CardsOfPart, CardFor
  <2> QED BY <2>1, OneOf
<1>3. CASE p.status # "pending-confirmation"
  <2>1. CardsOfPart(p) = <<CardFor(p)>>
    BY <1>1, <1>3 DEF CardsOfPart, CardFor
  <2> QED BY <2>1, OneOf
<1> QED BY <1>2, <1>3

\* ... when there is one.
LEMMA CardVisible ==
  ASSUME NEW p, Visible(p, Permission)
  PROVE  CardsOfPart(p) # << >>
<1>1. ~(p.status = "cancelled" \/ (p.tool = Permission /\ p.status # "pending-confirmation"))
  BY DEF Visible
<1>2. CASE p.status = "pending-confirmation"
  <2>1. CardsOfPart(p) = <<CardFor(p)>>
    BY <1>1, <1>2 DEF CardsOfPart, CardFor
  <2> QED BY <2>1, OneOf
<1>3. CASE p.status # "pending-confirmation"
  <2>1. CardsOfPart(p) = <<CardFor(p)>>
    BY <1>1, <1>3 DEF CardsOfPart, CardFor
  <2> QED BY <2>1, OneOf
<1> QED BY <1>2, <1>3

\* The row of a text part.
TextRow(t, p) == [Row("agent", t.id, 0, 0) EXCEPT !.text = p.text]

\* The row of a part of text.
LEMMA TextRowFacts ==
  ASSUME NEW t, NEW p, NEW r, r = TextRow(t, p)
  PROVE  r.kind = "agent" /\ r.turn = t.id /\ r.segment = 0 /\ r.text = p.text /\ ~IsCard(r)
  BY DEF TextRow, Row, IsCard

\* A part of text has a row when it has text.
LEMMA RowOfText ==
  ASSUME NEW t, NEW p, p.kind # "tool"
  PROVE  /\ p.text = << >> => RowsOfPart(t, p) = << >>
         /\ p.text # << >> => RowsOfPart(t, p) # << >> /\ RowsOfPart(t, p)[1] = TextRow(t, p)
<1>1. p.text = << >> => RowsOfPart(t, p) = << >>
  BY DEF RowsOfPart
<1>2. p.text # << >> => RowsOfPart(t, p) = <<TextRow(t, p)>>
  BY DEF RowsOfPart, TextRow
<1> QED BY <1>1, <1>2, OneOf

\* Where in its turn a row comes from.
UserPlace(r, t, q) == q = 0 /\ r.kind = "user" /\ r.turn = t.id
ErrorPlace(r, t, q) == q = Len(t.parts) + 1 /\ t.failed /\ r.kind = "error"
TextPlace(r, t, q) ==
  /\ q \in 1..Len(t.parts) /\ t.parts[q].kind = "text" /\ t.parts[q].text # << >>
  /\ r.kind = "agent" /\ r.turn = t.id /\ r.segment = 0 /\ r.text = t.parts[q].text
CardPlace(r, t, q) ==
  q \in 1..Len(t.parts) /\ t.parts[q].kind = "tool" /\ r = CardFor(t.parts[q])

\* A row of a snapshot is what its place in the turn says ...
LEMMA RowPlace ==
  ASSUME NEW t \in TurnT, NEW q \in Nat, HasRow(t, q), NEW r, r = RowAt(t, q)
  PROVE  UserPlace(r, t, q) \/ ErrorPlace(r, t, q) \/ TextPlace(r, t, q) \/ CardPlace(r, t, q)
<1>1. PICK n \in Nat : n = Len(t.parts) /\ DOMAIN t.parts = 1..n
  BY PartsOf
<1>2. CASE q = 0
  <2>1. r = Row("user", t.id, 0, 0)
    BY <1>2 DEF RowAt
  <2> QED BY <1>2, <2>1, RowFacts DEF UserPlace
<1>3. CASE q = n + 1
  <2>1. q # 0 /\ q \notin 1..n
    BY <1>3
  <2>2. r = Row("error", 0, 0, 0) /\ t.failed
    BY <1>1, <1>3, <2>1 DEF RowAt, HasRow
  <2> QED BY <1>1, <1>3, <2>2, RowFacts DEF ErrorPlace
<1>4. CASE q \in 1..n
  <2>1. q # 0 /\ q # n + 1
    BY <1>4
  <2>2. PICK p \in PartT : p = t.parts[q]
    BY <1>1, <1>4, PartsOf
  <2>3. r = RowsOfPart(t, p)[1] /\ RowsOfPart(t, p) # << >>
    BY <1>1, <2>1, <2>2 DEF RowAt, HasRow
  <2>4. CASE p.kind = "tool"
    <3>1. RowsOfPart(t, p) = CardsOfPart(p)
      BY <2>4 DEF RowsOfPart
    <3>2. r = CardFor(p)
      BY <2>3, <3>1, CardRow
    <3> QED BY <1>1, <1>4, <2>2, <2>4, <3>2 DEF CardPlace
  <2>5. CASE p.kind = "text"
    <3>1. p.text # << >> /\ r = TextRow(t, p)
      BY <2>3, <2>5, RowOfText
    <3>2. r.kind = "agent" /\ r.turn = t.id /\ r.segment = 0 /\ r.text = p.text
      BY <3>1, TextRowFacts
    <3> QED BY <1>1, <1>4, <2>2, <2>5, <3>1, <3>2 DEF TextPlace
  <2> QED BY <2>4, <2>5 DEF PartT
<1>5. q = 0 \/ q = n + 1 \/ q \in 1..n
  BY <1>1 DEF HasRow
<1> QED BY <1>2, <1>3, <1>4, <1>5

\* The rows are about different things in the four places.
LEMMA PlaceKinds ==
  ASSUME NEW r, NEW t, NEW q
  PROVE  /\ UserPlace(r, t, q) => r.kind = "user" /\ ~IsCard(r)
         /\ ErrorPlace(r, t, q) => r.kind = "error" /\ ~IsCard(r)
         /\ TextPlace(r, t, q) => r.kind = "agent" /\ ~IsCard(r)
         /\ CardPlace(r, t, q) => IsCard(r) /\ r.kind \notin {"user", "error", "agent"}
<1>1. CardPlace(r, t, q) => IsCard(r)
  BY CardForFacts DEF CardPlace
<1> QED BY <1>1 DEF UserPlace, ErrorPlace, TextPlace, IsCard

\* ... and every place that should have a row has one.
LEMMA PlaceRow ==
  ASSUME NEW t \in TurnT
  PROVE  /\ HasRow(t, 0)
         /\ t.failed => HasRow(t, Len(t.parts) + 1)
         /\ \A q \in 1..Len(t.parts) : t.parts[q].kind = "text" /\ t.parts[q].text # << >> => HasRow(t, q)
         /\ \A q \in 1..Len(t.parts) : t.parts[q].kind = "tool" /\ Visible(t.parts[q], Permission) => HasRow(t, q)
<1>1. HasRow(t, 0) /\ (t.failed => HasRow(t, Len(t.parts) + 1))
  BY DEF HasRow
<1>2. ASSUME NEW q \in 1..Len(t.parts), t.parts[q].kind = "text", t.parts[q].text # << >> PROVE HasRow(t, q)
  BY <1>2, RowOfText DEF HasRow
<1>3. ASSUME NEW q \in 1..Len(t.parts), t.parts[q].kind = "tool", Visible(t.parts[q], Permission) PROVE HasRow(t, q)
  <2>1. RowsOfPart(t, t.parts[q]) = CardsOfPart(t.parts[q])
    BY <1>3 DEF RowsOfPart
  <2> QED BY <1>3, <2>1, CardVisible DEF HasRow
<1> QED BY <1>1, <1>2, <1>3

-----------------------------------------------------------------------------
\* The turns of a snapshot have names of their own, and the failed ones are past.
LEMMA ShownNamed ==
  ASSUME NEW c \in ChatT, NEW m, NEW n, NEW p, NEW u, ChatGood(c, m, n, p, u), NEW ts, ts = ShownTurns(c)
  PROVE  /\ \A i, j \in DOMAIN ts : ts[i].id = ts[j].id => i = j
         /\ \A i \in DOMAIN ts : ts[i].failed => i \in DOMAIN c.past /\ c.past[i] = ts[i]
         /\ \A i \in DOMAIN c.past : i \in DOMAIN ts /\ ts[i] = c.past[i]
<1>1. Named(c) /\ Resting(c)
  BY DEF ChatGood
<1>2. CASE c.active.id = 0
  <2>1. ts = c.past
    BY <1>2 DEF ShownTurns
  <2> QED BY <1>1, <2>1 DEF Named
<1>3. CASE c.active.id # 0
  <2>1. c.past \in Seq(TurnT) /\ c.active \in TurnT
    BY ChatParts
  <2>2. ts = Append(c.past, c.active)
    BY <1>3 DEF ShownTurns
  <2>3. AddedTo(ts, c.past, c.active)
    BY <2>1, <2>2, AppendAdds
  <2>4. PICK l \in Nat : /\ DOMAIN c.past = 1..l /\ DOMAIN ts = 1..l+1 /\ ts[l+1] = c.active
                         /\ \A i \in 1..l : ts[i] = c.past[i]
    BY <2>3 DEF AddedTo
  <2>5. ~c.active.failed /\ \A i \in 1..l : c.past[i].id # c.active.id
    BY <1>1, <2>4 DEF Named, Resting
  <2>6. \A i, j \in 1..l : c.past[i].id = c.past[j].id => i = j
    BY <1>1, <2>4 DEF Named
  <2>7. \A i : i \in 1..l+1 <=> i \in 1..l \/ i = l + 1
    BY <2>4
  <2>8. \A i, j \in DOMAIN ts : ts[i].id = ts[j].id => i = j
    BY <2>4, <2>5, <2>6, <2>7
  <2>9. \A i \in DOMAIN ts : ts[i].failed => i \in DOMAIN c.past /\ c.past[i] = ts[i]
    BY <2>4, <2>5, <2>7
  <2> QED BY <2>4, <2>7, <2>8, <2>9
<1> QED BY <1>2, <1>3

\* The row is what its place says.
InPlace(r, t, q) == UserPlace(r, t, q) \/ ErrorPlace(r, t, q) \/ TextPlace(r, t, q) \/ CardPlace(r, t, q)

\* The rows of a snapshot, each from its place.
Layout(rows, ts, h, l, b, o) ==
  /\ ts \in Seq(TurnT) /\ h = Len(ts) /\ h \in Nat /\ DOMAIN ts = 1..h
  /\ rows \in Seq(RowT) /\ l = Len(rows) /\ l \in Nat /\ DOMAIN rows = 1..l
  /\ b \in [1..l -> 1..h] /\ o \in [1..l -> Nat]
  /\ \A i \in 1..l : InPlace(rows[i], ts[b[i]], o[i])
  /\ Distinct(l, b, o) /\ ChatComplete(ts, l, b, o)

\* A snapshot puts the rows of its turns so ...
LEMMA SnapshotLayout ==
  ASSUME NEW ts \in Seq(TurnT)
  PROVE  \E h, l, b, o : Layout(RowsOf(ts), ts, h, l, b, o)
<1>1. PICK rows \in Seq(RowT) : rows = RowsOf(ts)
  BY RowsOfType
<1>2. PICK l \in Nat : l = Len(rows) /\ DOMAIN rows = 1..l
  BY LenProperties
<1>3. PICK h \in Nat : h = Len(ts) /\ DOMAIN ts = 1..h
  BY LenProperties
<1>4. PICK b, o : ChatPlaced(ts, rows, l, b, o)
  BY <1>1, <1>2, ChatPlaces
<1>5. /\ b \in [1..l -> 1..h] /\ o \in [1..l -> Nat]
      /\ \A i \in 1..l : HasRow(ts[b[i]], o[i]) /\ rows[i] = RowAt(ts[b[i]], o[i])
  BY <1>3, <1>4 DEF ChatPlaced, ChatOrigin
<1>6. Distinct(l, b, o) /\ ChatComplete(ts, l, b, o)
  BY <1>4 DEF ChatPlaced
<1>7. ASSUME NEW i \in 1..l PROVE InPlace(rows[i], ts[b[i]], o[i])
  <2>1. PICK t \in TurnT : t = ts[b[i]]
    BY <1>3, <1>5, ElementOfSeq
  <2>2. PICK q \in Nat : q = o[i]
    BY <1>5
  <2>3. PICK r : r = rows[i]
    OBVIOUS
  <2>4. HasRow(t, q) /\ r = RowAt(t, q)
    BY <1>5, <2>1, <2>2, <2>3
  <2>5. InPlace(r, t, q)
    BY <2>4, RowPlace DEF InPlace
  <2> QED BY <2>1, <2>2, <2>3, <2>5
<1>8. Layout(rows, ts, h, l, b, o)
  BY <1>1, <1>2, <1>3, <1>5, <1>6, <1>7 DEF Layout
<1> QED BY <1>1, <1>8

\* What stands where.
LEMMA LayoutKinds ==
  ASSUME NEW rows, NEW ts, NEW h, NEW l, NEW b, NEW o, Layout(rows, ts, h, l, b, o), NEW i \in 1..l,
         NEW t, t = ts[b[i]], NEW q, q = o[i]
  PROVE  /\ b[i] \in 1..h /\ t \in TurnT /\ q \in Nat
         /\ rows[i].kind = "user" => UserPlace(rows[i], t, q)
         /\ rows[i].kind = "error" => ErrorPlace(rows[i], t, q)
         /\ rows[i].kind = "agent" => TextPlace(rows[i], t, q)
         /\ IsCard(rows[i]) => CardPlace(rows[i], t, q)
<1>1. b[i] \in 1..h /\ q \in Nat /\ InPlace(rows[i], t, q)
  BY DEF Layout
<1>2. t \in TurnT
  BY <1>1, ElementOfSeq DEF Layout
<1>3. PICK r : r = rows[i]
  OBVIOUS
<1>4. InPlace(r, t, q)
  BY <1>1, <1>3
<1>5. /\ r.kind = "user" => UserPlace(r, t, q)
      /\ r.kind = "error" => ErrorPlace(r, t, q)
      /\ r.kind = "agent" => TextPlace(r, t, q)
      /\ IsCard(r) => CardPlace(r, t, q)
  BY <1>4, PlaceKinds DEF InPlace
<1> QED BY <1>1, <1>2, <1>3, <1>5

\* ... a place that has a row has it somewhere ...
LEMMA LayoutRow ==
  ASSUME NEW rows, NEW ts, NEW h, NEW l, NEW b, NEW o, Layout(rows, ts, h, l, b, o), NEW k \in 1..h,
         NEW q \in 0..Len(ts[k].parts)+1, HasRow(ts[k], q)
  PROVE  \E i \in 1..l : b[i] = k /\ o[i] = q /\ InPlace(rows[i], ts[k], q)
<1>1. PICK i \in 1..l : b[i] = k /\ o[i] = q
  BY DEF Layout, ChatComplete
<1>2. InPlace(rows[i], ts[b[i]], o[i])
  BY DEF Layout
<1> QED BY <1>1, <1>2

\* ... and the users' messages are those of the turns.
LEMMA LayoutUsers ==
  ASSUME NEW rows, NEW ts, NEW h, NEW l, NEW b, NEW o, Layout(rows, ts, h, l, b, o), NEW id
  PROVE  id \in Users(rows) <=> \E k \in 1..h : ts[k].id = id
<1>0. DOMAIN rows = 1..l /\ ts \in Seq(TurnT) /\ h = Len(ts)
  BY DEF Layout
<1>1. id \in Users(rows) <=> \E i \in 1..l : rows[i].kind = "user" /\ rows[i].turn = id
  BY <1>0 DEF Users
<1>2. ASSUME NEW i \in 1..l, rows[i].kind = "user", rows[i].turn = id PROVE \E k \in 1..h : ts[k].id = id
  <2>1. b[i] \in 1..h /\ UserPlace(rows[i], ts[b[i]], o[i])
    BY <1>2, LayoutKinds
  <2> QED BY <1>2, <2>1 DEF UserPlace
<1>3. ASSUME NEW k \in 1..h, ts[k].id = id PROVE \E i \in 1..l : rows[i].kind = "user" /\ rows[i].turn = id
  <2>1. ts[k] \in TurnT
    BY <1>0, ElementOfSeq
  <2>2. HasRow(ts[k], 0) /\ 0 \in 0..Len(ts[k].parts)+1
    BY <2>1, PlaceRow, PartsOf
  <2>3. PICK i \in 1..l : b[i] = k /\ o[i] = 0 /\ InPlace(rows[i], ts[k], 0)
    BY <2>2, LayoutRow
  <2>4. 0 # Len(ts[k].parts) + 1 /\ 0 \notin 1..Len(ts[k].parts)
    BY <2>1, PartsOf
  <2>5. UserPlace(rows[i], ts[k], 0)
    BY <2>3, <2>4 DEF InPlace, ErrorPlace, TextPlace, CardPlace
  <2> QED BY <1>3, <2>5 DEF UserPlace
<1> QED BY <1>1, <1>2, <1>3

-----------------------------------------------------------------------------
\* Different turns have different names, and each is good.
Apart0(ts, h, n, u) ==
  /\ \A i, j \in 1..h : ts[i].id = ts[j].id => i = j
  /\ \A i \in 1..h : TurnGood(ts[i], n, Permission, u)

\* A turn has one row of text at most.
LEMMA LayoutOneText ==
  ASSUME NEW rows, NEW ts, NEW h, NEW l, NEW b, NEW o, Layout(rows, ts, h, l, b, o), NEW n, NEW u,
         Apart0(ts, h, n, u), NEW i \in 1..l, NEW j \in 1..l, rows[i].kind = "agent", rows[j].kind = "agent",
         rows[i].turn = rows[j].turn
  PROVE  i = j
<1>1. b[i] \in 1..h /\ TextPlace(rows[i], ts[b[i]], o[i]) /\ ts[b[i]] \in TurnT
  BY LayoutKinds
<1>2. b[j] \in 1..h /\ TextPlace(rows[j], ts[b[j]], o[j])
  BY LayoutKinds
<1>3. b[i] = b[j]
  BY <1>1, <1>2 DEF TextPlace, Apart0
<1>4. o[i] = o[j]
  <2>1. OneText(ts[b[i]])
    BY <1>1 DEF Apart0, TurnGood
  <2>2. DOMAIN ts[b[i]].parts = 1..Len(ts[b[i]].parts)
    BY <1>1, PartsOf
  <2> QED BY <1>1, <1>2, <1>3, <2>1, <2>2 DEF TextPlace, OneText
<1> QED BY <1>3, <1>4 DEF Layout, Distinct

\* ... and it shows the text of the turn.
LEMMA LayoutText ==
  ASSUME NEW rows, NEW ts, NEW h, NEW l, NEW b, NEW o, Layout(rows, ts, h, l, b, o), NEW n, NEW u,
         Apart0(ts, h, n, u), NEW k \in 1..h, NEW t, t = ts[k]
  PROVE  TextOfRows(rows, t.id) = TextOfTurn(t)
<1>1. rows \in Seq(RowT) /\ l = Len(rows) /\ l \in Nat /\ DOMAIN rows = 1..l
  BY DEF Layout
<1>2. t \in TurnT /\ TurnGood(t, n, Permission, u)
  <2>1. ts \in Seq(TurnT) /\ h = Len(ts)
    BY DEF Layout
  <2> QED BY <2>1, ElementOfSeq DEF Apart0
<1>3. PICK s \in Seq(Seq(Nat)) : s = RowTexts(rows, t.id) /\ Len(s) = l
  BY <1>1, RowTextsAre
<1>4. \A i \in 1..l : s[i] = TextAt(rows[i], t.id)
  BY <1>1, <1>3, RowTextsAre
<1>5. TextOfRows(rows, t.id) = FlattenSeq(s)
  BY <1>1, <1>3, RowTextsAre
<1>6. PICK w \in Nat : w = Len(t.parts) /\ DOMAIN t.parts = 1..w
  BY <1>2, PartsOf
<1>7. CASE \E q \in 1..w : t.parts[q].kind = "text" /\ t.parts[q].text # << >>
  <2>1. PICK q \in 1..w : t.parts[q].kind = "text" /\ t.parts[q].text # << >>
    BY <1>7
  <2>2. HasRow(t, q) /\ q \in 0..Len(t.parts)+1
    BY <1>2, <1>6, <2>1, PlaceRow
  <2>3. PICK i \in 1..l : b[i] = k /\ o[i] = q /\ InPlace(rows[i], t, q)
    BY <2>2, LayoutRow
  <2>4. TextPlace(rows[i], t, q)
    <3>1. q # 0 /\ q # Len(t.parts) + 1
      BY <1>6, <2>1
    <3>2. ~CardPlace(rows[i], t, q)
      BY <2>1 DEF CardPlace
    <3> QED BY <2>3, <3>1, <3>2 DEF InPlace, UserPlace, ErrorPlace
  <2>5. s[i] = t.parts[q].text
    BY <1>4, <2>4 DEF TextPlace, TextAt
  <2>6. ASSUME NEW j \in 1..l, j # i PROVE s[j] = << >>
    <3>1. CASE rows[j].kind = "agent" /\ rows[j].turn = t.id
      <4>1. rows[i].kind = "agent" /\ rows[i].turn = t.id
        BY <2>4 DEF TextPlace
      <4>2. i = j
        BY <3>1, <4>1, LayoutOneText
      <4> QED BY <2>6, <4>2
    <3>2. CASE ~(rows[j].kind = "agent" /\ rows[j].turn = t.id)
      BY <1>4, <3>2 DEF TextAt
    <3> QED BY <3>1, <3>2
  <2>7. FlattenSeq(s) = s[i]
    BY <1>3, <2>6, FlattenOne
  <2>8. TextOfTurn(t) = t.parts[q].text
    BY <1>2, <1>6, <2>1, TurnText
  <2> QED BY <1>5, <2>5, <2>7, <2>8
<1>8. CASE \A q \in 1..w : t.parts[q].kind = "text" => t.parts[q].text = << >>
  <2>1. ASSUME NEW j \in 1..l PROVE s[j] = << >>
    <3>1. CASE rows[j].kind = "agent" /\ rows[j].turn = t.id
      <4>1. b[j] \in 1..h /\ TextPlace(rows[j], ts[b[j]], o[j])
        BY <3>1, LayoutKinds
      <4>2. b[j] = k
        BY <3>1, <4>1 DEF TextPlace, Apart0
      <4> QED BY <1>6, <1>8, <4>1, <4>2 DEF TextPlace
    <3>2. CASE ~(rows[j].kind = "agent" /\ rows[j].turn = t.id)
      BY <1>4, <3>2 DEF TextAt
    <3> QED BY <3>1, <3>2
  <2>2. FlattenSeq(s) = << >>
    BY <1>3, <2>1, FlattenNone
  <2>3. TextOfTurn(t) = << >>
    <3>1. CASE HasText(t)
      <4>1. PICK q \in 1..w : t.parts[q].kind = "text"
        BY <1>6, <3>1 DEF HasText
      <4> QED BY <1>2, <1>6, <1>8, <4>1, TurnText
    <3>2. CASE ~HasText(t)
      BY <1>2, <3>2, TurnText
    <3> QED BY <3>1, <3>2
  <2> QED BY <1>5, <2>2, <2>3
<1> QED BY <1>7, <1>8

\* One error for every turn that failed.
LEMMA LayoutErrors ==
  ASSUME NEW rows, NEW ts, NEW h, NEW l, NEW b, NEW o, Layout(rows, ts, h, l, b, o),
         NEW F, F = {k \in 1..h : ts[k].failed}
  PROVE  Cardinality(ErrorsOf(rows)) = Cardinality(F)
<1>1. rows \in Seq(RowT) /\ DOMAIN rows = 1..l /\ ts \in Seq(TurnT) /\ h = Len(ts)
  BY DEF Layout
<1>2. PICK E : E = ErrorsOf(rows)
  OBVIOUS
<1>3. IsFiniteSet(E) /\ E = {i \in 1..l : rows[i].kind = "error"}
  BY <1>1, <1>2, CountsFinite DEF ErrorsOf
<1>4. \A i \in E : b[i] \in F /\ o[i] = Len(ts[b[i]].parts) + 1
  BY <1>3, LayoutKinds DEF ErrorPlace
<1>5. PICK f : f = [i \in E |-> b[i]]
  OBVIOUS
<1>6. f \in [E -> F]
  BY <1>4, <1>5
<1>7. \A i, j \in E : f[i] = f[j] => i = j
  <2>1. SUFFICES ASSUME NEW i \in E, NEW j \in E, f[i] = f[j] PROVE i = j
    OBVIOUS
  <2>2. b[i] = b[j]
    BY <1>5, <2>1
  <2>3. o[i] = o[j]
    BY <1>4, <2>2
  <2> QED BY <1>3, <2>2, <2>3 DEF Layout, Distinct
<1>8. \A k \in F : \E i \in E : f[i] = k
  <2>1. SUFFICES ASSUME NEW k \in F PROVE \E i \in E : f[i] = k
    OBVIOUS
  <2>2. k \in 1..h /\ ts[k].failed /\ ts[k] \in TurnT
    BY <1>1, <2>1, ElementOfSeq
  <2>3. PICK w \in Nat : w = Len(ts[k].parts)
    BY <2>2, PartsOf
  <2>4. HasRow(ts[k], w + 1) /\ w + 1 \in 0..Len(ts[k].parts) + 1
    BY <2>2, <2>3, PlaceRow
  <2>5. PICK i \in 1..l : b[i] = k /\ o[i] = w + 1 /\ InPlace(rows[i], ts[k], w + 1)
    BY <2>2, <2>4, LayoutRow
  <2>6. w + 1 # 0 /\ w + 1 \notin 1..Len(ts[k].parts)
    BY <2>3
  <2>7. rows[i].kind = "error"
    BY <2>5, <2>6 DEF InPlace, UserPlace, ErrorPlace, TextPlace, CardPlace
  <2> QED BY <1>3, <1>5, <2>5, <2>7
<1>9. f \in Bijection(E, F)
  BY <1>6, <1>7, <1>8 DEF Bijection, Injection, Surjection, IsInjective
<1>10. ExistsBijection(E, F)
  BY <1>9 DEF ExistsBijection
<1> QED BY <1>2, <1>3, <1>10, FS_Bijection

-----------------------------------------------------------------------------
\* A snapshot shows the chat, cards included.
LEMMA LayoutCards ==
  ASSUME NEW c \in ChatT, NEW m, NEW n \in Nat, NEW u, ChatGood(c, m, n, Permission, u),
         NEW rows, NEW ts, NEW h, NEW l, NEW b, NEW o, Layout(rows, ts, h, l, b, o), Apart0(ts, h, n, u),
         \A k \in 1..h : ts[k] \in TurnSet(c), \A t \in TurnSet(c) : \E k \in 1..h : ts[k] = t
  PROVE  Carded(rows, c, Permission)
<1>1. DOMAIN rows = 1..l
  BY DEF Layout
<1>2. ASSUME NEW i \in 1..l, IsCard(rows[i])
      PROVE  /\ b[i] \in 1..h /\ ts[b[i]] \in TurnT
             /\ o[i] \in DOMAIN ts[b[i]].parts
             /\ ts[b[i]].parts[o[i]].kind = "tool"
             /\ rows[i] = CardFor(ts[b[i]].parts[o[i]])
             /\ ts[b[i]].parts[o[i]] \in Tools(c)
  <2>1. b[i] \in 1..h /\ ts[b[i]] \in TurnT /\ CardPlace(rows[i], ts[b[i]], o[i])
    BY <1>2, LayoutKinds
  <2>2. DOMAIN ts[b[i]].parts = 1..Len(ts[b[i]].parts)
    BY <2>1, PartsOf
  <2>3. /\ o[i] \in DOMAIN ts[b[i]].parts
        /\ ts[b[i]].parts[o[i]].kind = "tool"
        /\ rows[i] = CardFor(ts[b[i]].parts[o[i]])
    BY <2>1, <2>2 DEF CardPlace
  <2>4. ts[b[i]].parts[o[i]] \in Tools(c)
    BY <2>1, <2>3, ToolsAre
  <2> QED BY <2>1, <2>3, <2>4
<1>3. OneCard(rows)
  <2>1. SUFFICES ASSUME NEW i \in 1..l, NEW j \in 1..l, IsCard(rows[i]), IsCard(rows[j]), rows[i].tool = rows[j].tool
                 PROVE  i = j
    BY <1>1 DEF OneCard
  <2>2. PICK t, p : t = ts[b[i]] /\ p = o[i]
    OBVIOUS
  <2>3. PICK v, q : v = ts[b[j]] /\ q = o[j]
    OBVIOUS
  <2>4. /\ t \in TurnSet(c) /\ p \in DOMAIN t.parts /\ t.parts[p].kind = "tool"
        /\ rows[i].tool = t.parts[p].tool
    BY <1>2, <2>1, <2>2, CardForFacts
  <2>5. /\ v \in TurnSet(c) /\ q \in DOMAIN v.parts /\ v.parts[q].kind = "tool"
        /\ rows[j].tool = v.parts[q].tool
    BY <1>2, <2>1, <2>3, CardForFacts
  <2>6. TurnGood(t, n, Permission, u)
    BY <2>4 DEF ChatGood
  <2>7. t.parts[p].tool \in 1..n
    BY <2>4, <2>6 DEF TurnGood, PartGood
  <2>8. t.id = v.id
    <3>1. PICK k \in 1..n : k = t.parts[p].tool
      BY <2>7
    <3>2. HasCall(t, k) /\ HasCall(v, k)
      BY <2>1, <2>4, <2>5, <3>1 DEF HasCall
    <3>3. Apart(c, n)
      BY DEF ChatGood
    <3> QED BY <2>4, <2>5, <3>2, <3>3 DEF Apart
  <2>9. b[i] = b[j]
    BY <1>2, <2>1, <2>2, <2>3, <2>8 DEF Apart0
  <2>10. p = q
    BY <2>1, <2>2, <2>3, <2>4, <2>5, <2>6, <2>9 DEF TurnGood, OneCall
  <2> QED BY <2>2, <2>3, <2>9, <2>10 DEF Layout, Distinct
<1>4. Known(rows, c)
  <2>1. SUFFICES ASSUME NEW k \in Calls(rows) PROVE \E p \in Tools(c) : p.tool = k
    BY DEF Known
  <2>2. PICK i \in 1..l : IsCard(rows[i]) /\ rows[i].tool = k
    <3>1. \E i \in DOMAIN rows : IsCard(rows[i]) /\ rows[i].tool = k
      BY CallsAre
    <3> QED BY <1>1, <3>1
  <2> QED BY <1>2, <2>2, CardForFacts
<1>5. Shown(rows, c, Permission)
  <2>1. SUFFICES ASSUME NEW p \in Tools(c), Visible(p, Permission) PROVE \E j \in 1..l : rows[j] = CardFor(p)
    BY <1>1 DEF Shown
  <2>2. PICK t \in TurnSet(c) : \E i \in DOMAIN t.parts : p = t.parts[i] /\ p.kind = "tool"
    BY ToolsAre
  <2>3. PICK i \in DOMAIN t.parts : p = t.parts[i] /\ p.kind = "tool"
    BY <2>2
  <2>4. PICK k \in 1..h : ts[k] = t
    OBVIOUS
  <2>5. t \in TurnT
    BY ChatParts
  <2>6. PICK w \in Nat : w = Len(t.parts) /\ DOMAIN t.parts = 1..w
    BY <2>5, PartsOf
  <2>7. HasRow(t, i) /\ i \in 0..Len(t.parts)+1 /\ i # 0 /\ i # Len(t.parts)+1
    BY <2>1, <2>3, <2>5, <2>6, PlaceRow
  <2>8. PICK j \in 1..l : b[j] = k /\ o[j] = i /\ InPlace(rows[j], t, i)
    BY <2>4, <2>7, LayoutRow
  <2>9. CardPlace(rows[j], t, i)
    BY <2>3, <2>7, <2>8 DEF InPlace, UserPlace, ErrorPlace, TextPlace
  <2> QED BY <2>3, <2>9 DEF CardPlace
<1>6. Plain(rows, c)
  <2>1. SUFFICES ASSUME NEW p \in Tools(c), NEW j \in 1..l, p.status = "streaming", IsCard(rows[j]), rows[j].tool = p.tool
                 PROVE  rows[j].summary = ""
    BY <1>1 DEF Plain
  <2>2. PICK r \in Tools(c) : rows[j] = CardFor(r)
    BY <1>2, <2>1
  <2>3. r.tool = p.tool
    BY <2>1, <2>2, CardForFacts
  <2>4. r = p
    BY <2>3, OnePart
  <2>5. p.input = ""
    <3>1. PICK t \in TurnSet(c) : \E i \in DOMAIN t.parts : p = t.parts[i] /\ p.kind = "tool"
      BY ToolsAre
    <3>2. PICK i \in DOMAIN t.parts : p = t.parts[i]
      BY <3>1
    <3>3. TurnGood(t, n, Permission, u)
      BY DEF ChatGood
    <3>4. PartGood(p, t.id, n, Permission, u)
      BY <3>2, <3>3 DEF TurnGood
    <3> QED BY <2>1, <3>4 DEF PartGood
  <2>6. rows[j].summary = toolCallSummary("")
    BY <2>2, <2>4, <2>5, CardForFacts
  <2> QED BY <2>6 DEF toolCallSummary
<1> QED BY <1>3, <1>4, <1>5, <1>6 DEF Carded

\* Rows taken over from a snapshot show its chat, whatever was there before
\* (AHPProjectionService.projectChatSnapshot).
LEMMA MirrorSnapshot ==
  ASSUME NEW v \in ViewT, NEW c \in ChatT, NEW m \in Nat, NEW n \in Nat, NEW u, ChatGood(c, m, n, Permission, u),
         NEW w, w.rows = RowsOf(ShownTurns(c)), w.turn = c.active.id, w.proj = c.active.id,
         w.segment \in Nat, NEW P
  PROVE  Mirror(w, c, P, Permission)
<1>1. PICK ts \in Seq(TurnT) : ts = ShownTurns(c)
  BY ShownAre
<1>2. PICK h, l, b, o : Layout(w.rows, ts, h, l, b, o)
  BY <1>1, SnapshotLayout
<1>3. PICK rows : rows = w.rows
  OBVIOUS
<1>4. Layout(rows, ts, h, l, b, o)
  BY <1>2, <1>3
<1>5. DOMAIN ts = 1..h /\ DOMAIN rows = 1..l /\ rows \in Seq(RowT)
  BY <1>4 DEF Layout
<1>6. /\ \A k \in 1..h : ts[k] \in TurnSet(c)
      /\ \A t \in TurnSet(c) : \E k \in 1..h : ts[k] = t
  BY <1>1, <1>5, ShownAre
<1>7. /\ \A i, j \in 1..h : ts[i].id = ts[j].id => i = j
      /\ \A i \in 1..h : ts[i].failed => i \in DOMAIN c.past /\ c.past[i] = ts[i]
      /\ \A i \in DOMAIN c.past : i \in 1..h /\ ts[i] = c.past[i]
  <2>1. /\ \A i, j \in DOMAIN ts : ts[i].id = ts[j].id => i = j
        /\ \A i \in DOMAIN ts : ts[i].failed => i \in DOMAIN c.past /\ c.past[i] = ts[i]
        /\ \A i \in DOMAIN c.past : i \in DOMAIN ts /\ ts[i] = c.past[i]
    BY <1>1, ShownNamed
  <2> QED BY <1>5, <2>1
<1>8. Apart0(ts, h, n, u)
  BY <1>6, <1>7 DEF Apart0, ChatGood
<1>9. \A id : id \in Ids(c) <=> \E k \in 1..h : ts[k].id = id
  BY <1>6, IdsAre
<1>10. Working(w.turn, c, P)
  BY DEF Working
<1>11. Users(rows) = Ids(c)
  <2>1. \A id : id \in Users(rows) <=> id \in Ids(c)
    BY <1>4, <1>9, LayoutUsers
  <2> QED BY <2>1
<1>12. Asked(rows, c, P)
  BY <1>11 DEF Asked
<1>13. Told(rows, c)
  <2>1. ASSUME NEW t \in TurnSet(c) PROVE TextOfRows(rows, t.id) = TextOfTurn(t)
    <3>1. PICK k \in 1..h : ts[k] = t
      BY <1>6
    <3> QED BY <1>4, <1>8, <3>1, LayoutText
  <2>2. Texted(rows) \subseteq Ids(c)
    BY <1>3, SnapshotRows
  <2> QED BY <2>1, <2>2 DEF Told
<1>14. Layered(rows, w.proj, w.segment)
  <2>1. ASSUME NEW i \in 1..l, rows[i].kind = "agent" PROVE rows[i].segment = 0
    BY <1>4, <2>1, LayoutKinds DEF TextPlace
  <2>2. ASSUME NEW i \in 1..l, NEW j \in 1..l, rows[i].kind = "agent", rows[j].kind = "agent",
               rows[i].turn = rows[j].turn
        PROVE  ~(i < j)
    <3>1. i = j
      BY <1>4, <1>8, <2>2, LayoutOneText
    <3>2. PICK z \in Nat : 1..l = 1..z
      BY <1>4 DEF Layout
    <3> QED BY <3>1, <3>2
  <2> QED BY <1>5, <2>1, <2>2 DEF Layered
<1>15. Failures(rows, c)
  <2>1. PICK F : F = {k \in 1..h : ts[k].failed}
    OBVIOUS
  <2>2. F = FailedOf(c.past)
    BY <1>7, <2>1 DEF FailedOf
  <2>3. Cardinality(ErrorsOf(rows)) = Cardinality(F)
    BY <1>4, <2>1, LayoutErrors
  <2> QED BY <2>2, <2>3 DEF Failures
<1>16. Carded(rows, c, Permission)
  BY <1>4, <1>6, <1>8, LayoutCards
<1> QED BY <1>3, <1>10, <1>12, <1>13, <1>14, <1>15, <1>16 DEF Mirror

-----------------------------------------------------------------------------
SameName(a) == a.type = "toolCallReady" => (a.tool = Permission <=> a.tool = Permission')

\* The name of the request, when it does not matter for an action, changes nothing
\* in what the action does.
LEMMA ReducedSame ==
  ASSUME NEW t, NEW a, SameName(a)
  PROVE  Reduced(t, a)' = Reduced(t, a)
  BY DEF SameName, Reduced, WithTool

\* The same for a chat.
LEMMA AppliedSame ==
  ASSUME NEW c, NEW a, SameName(a)
  PROVE  Applied(c, a)' = Applied(c, a)
  BY ReducedSame DEF Applied, Ends


\* A snapshot changes nothing in the chat.
LEMMA AppliedNothing ==
  ASSUME NEW c \in ChatT, NEW a \in ActionT, a.type = "snapshot"
  PROVE  Applied(c, a) = c
<1>1. Reduced(c.active, a) = c.active
  BY DEF Reduced
<1>2. ~Ends(a) /\ a.type # "turnStarted"
  BY DEF Ends
<1>3. [c EXCEPT !.active = c.active] = c
  BY DEF ChatT
<1> QED BY <1>1, <1>2, <1>3 DEF Applied

\* A turn is about to start because it was asked for, or announced.
LEMMA AwaitedAre ==
  ASSUME NEW u, NEW f, NEW t
  PROVE  t \in Awaited(u, f) <=> \/ \E k \in DOMAIN u : u[k].type = "turnStarted" /\ u[k].turn = t
                                 \/ \E k \in DOMAIN f : f[k].msg.type = "turnStarted" /\ f[k].msg.turn = t
  BY DEF Awaited

\* The chats on the way are good.
LEMMA SeenGood ==
  ASSUME HostInv
  PROVE  Seen \in ChatT /\ ChatGood(Seen, count.turn, count.tool, Permission, ask.turn)
<1>1. TypesRight /\ HostGood
  BY DEF HostInv
<1>2. CASE flight = << >>
  BY <1>1, <1>2, FlightEntries DEF Seen, HostGood
<1>3. CASE flight # << >>
  <2>1. 1 \in DOMAIN flight
    <3>1. flight \in Seq(EntryT)
      BY <1>1, FlightEntries
    <3> QED BY <1>3, <3>1, Tails
  <2>2. flight[1] \in EntryT /\ WasGood(flight[1], count.turn, count.tool, Permission, ask.turn)
    BY <1>1, <2>1, FlightEntries DEF HostGood
  <2>3. Seen = flight[1].was
    BY <1>3 DEF Seen
  <2> QED BY <2>2, <2>3 DEF EntryT, WasGood
<1> QED BY <1>2, <1>3

\* A sequence without places is empty.
LEMMA EmptyIs ==
  ASSUME NEW X, NEW s \in Seq(X)
  PROVE  s = << >> <=> DOMAIN s = {}
<1>1. PICK n \in Nat : n = Len(s) /\ DOMAIN s = 1..n
  BY LenProperties
<1>2. ASSUME DOMAIN s = {} PROVE s = << >>
  <2>1. n = 0
    BY <1>1, <1>2
  <2> QED BY <1>1, <2>1, EmptySeq
<1> QED BY <1>2

\* What follows when a message joins the others.
LEMMA AddedWay ==
  ASSUME TypesRight, WayGood, NEW m, AddedTo(flight', flight, m), flight' \in Seq(EntryT),
         m.was = chat, Applied(chat, m.msg) = chat', SameName(m.msg),
         \A k \in DOMAIN flight : SameName(flight[k].msg)
  PROVE  WayGood'
<1>1. PICK n \in Nat : /\ DOMAIN flight = 1..n /\ DOMAIN flight' = 1..n+1 /\ flight'[n+1] = m
                       /\ \A i \in 1..n : flight'[i] = flight[i]
  BY DEF AddedTo
<1>2. Len(flight) = n /\ Len(flight') = n + 1
  <2>1. Len(flight) \in Nat /\ DOMAIN flight = 1..Len(flight)
    BY FlightEntries
  <2>2. Len(flight') \in Nat /\ DOMAIN flight' = 1..Len(flight')
    BY LenProperties
  <2> QED BY <1>1, <2>1, <2>2
<1>3. SUFFICES ASSUME NEW k \in 1..n+1, NEW f, f = flight'[k], ~f.late
               PROVE  Applied(f.was, f.msg)' = Following(flight', chat', k)
  BY <1>1 DEF WayGood
<1>4. CASE k = n + 1
  <2>1. f = m /\ Following(flight', chat', k) = chat'
    BY <1>1, <1>2, <1>3, <1>4 DEF Following
  <2>2. Applied(f.was, f.msg) = chat' /\ SameName(f.msg)
    BY <2>1
  <2> QED BY <2>1, <2>2, AppliedSame
<1>5. CASE k \in 1..n
  <2>1. f = flight[k] /\ SameName(f.msg)
    BY <1>1, <1>3, <1>5
  <2>2. Applied(f.was, f.msg) = Following(flight, chat, k)
    BY <1>1, <1>3, <1>5, <2>1 DEF WayGood
  <2>3. Following(flight', chat', k) = Following(flight, chat, k)
    <3>1. CASE k = n
      <4>1. Following(flight, chat, k) = chat
        BY <1>2, <3>1 DEF Following
      <4>2. Following(flight', chat', k) = flight'[n+1].was
        BY <1>1, <1>2, <3>1 DEF Following
      <4> QED BY <1>1, <4>1, <4>2
    <3>2. CASE k # n
      <4>1. k + 1 \in 1..n /\ k # n + 1
        BY <1>1, <1>5, <3>2
      <4>2. Following(flight, chat, k) = flight[k+1].was
        BY <1>2, <3>2 DEF Following
      <4>3. Following(flight', chat', k) = flight'[k+1].was
        BY <1>2, <4>1 DEF Following
      <4> QED BY <1>1, <4>1, <4>2, <4>3
    <3> QED BY <3>1, <3>2
  <2> QED BY <2>1, <2>2, <2>3, AppliedSame
<1>6. k \in 1..n \/ k = n + 1
  BY <1>1
<1> QED BY <1>4, <1>5, <1>6

\* The window sees the same chat as before.
LEMMA AddedSeen ==
  ASSUME TypesRight, NEW m, AddedTo(flight', flight, m), flight' \in Seq(EntryT), m.was = chat
  PROVE  /\ Seen' = Seen
         /\ flight # << >> => flight'[1] = flight[1]
         /\ flight = << >> => flight'[1] = m
         /\ flight' # << >>
<1>1. PICK n \in Nat : /\ DOMAIN flight = 1..n /\ DOMAIN flight' = 1..n+1 /\ flight'[n+1] = m
                       /\ \A i \in 1..n : flight'[i] = flight[i]
  BY DEF AddedTo
<1>2. flight' # << >>
  <2>1. 1 \in DOMAIN flight'
    BY <1>1
  <2> QED BY <2>1, EmptyIs
<1>3. CASE flight = << >>
  <2>1. n = 0
    BY <1>1, <1>3
  <2>2. flight'[1] = m
    BY <1>1, <2>1
  <2> QED BY <1>2, <1>3, <2>2 DEF Seen
<1>4. CASE flight # << >>
  <2>1. 1 \in 1..n
    BY <1>1, <1>4, FlightEntries, EmptyIs
  <2>2. flight'[1] = flight[1]
    BY <1>1, <2>1
  <2> QED BY <1>2, <1>4, <2>2 DEF Seen
<1> QED BY <1>3, <1>4

-----------------------------------------------------------------------------
\* A turn that is about to start has been asked for or has been announced.
LEMMA EmitAwaited ==
  ASSUME HostInv, NEW e, NEW a, EmitStep(e, a), AddedTo(flight', flight, Entry(e, a))
  PROVE  Awaited(uplink, flight) \subseteq Awaited(uplink', flight')
<1>1. PICK n \in Nat : /\ DOMAIN flight = 1..n /\ DOMAIN flight' = 1..n+1 /\ flight'[n+1] = Entry(e, a)
                       /\ \A i \in 1..n : flight'[i] = flight[i]
  BY DEF AddedTo
<1>2. Entry(e, a).msg = a /\ n + 1 \in 1..n+1
  BY <1>1 DEF Entry
<1>3. SUFFICES ASSUME NEW t, t \in Awaited(uplink, flight) PROVE t \in Awaited(uplink', flight')
  OBVIOUS
<1>4. CASE \E k \in DOMAIN flight : flight[k].msg.type = "turnStarted" /\ flight[k].msg.turn = t
  <2>1. PICK k \in 1..n : flight[k].msg.type = "turnStarted" /\ flight[k].msg.turn = t
    BY <1>1, <1>4
  <2>2. k \in DOMAIN flight' /\ flight'[k] = flight[k]
    BY <1>1
  <2> QED BY <2>1, <2>2, AwaitedAre
<1>5. CASE \E k \in DOMAIN uplink : uplink[k].type = "turnStarted" /\ uplink[k].turn = t
  <2>1. PICK k \in DOMAIN uplink : uplink[k].type = "turnStarted" /\ uplink[k].turn = t
    BY <1>5
  <2>2. CASE uplink' = uplink
    BY <2>1, <2>2, AwaitedAre
  <2>3. CASE uplink # << >> /\ uplink' = Tail(uplink) /\
             (uplink[1].type = "turnStarted" => a.type = "turnStarted" /\ a.turn = uplink[1].turn)
    <3>1. uplink \in Seq(RequestT)
      BY DEF HostInv, TypesRight, NetT
    <3>2. PICK l \in Nat : DOMAIN uplink = 1..l+1 /\ DOMAIN uplink' = 1..l /\ \A i \in 1..l : uplink'[i] = uplink[i + 1]
      BY <2>3, <3>1, Tails DEF TailOf
    <3>3. CASE k = 1
      <4>1. flight'[n+1].msg.type = "turnStarted" /\ flight'[n+1].msg.turn = t
        BY <1>1, <1>2, <2>1, <2>3, <3>3
      <4> QED BY <1>1, <1>2, <4>1, AwaitedAre
    <3>4. CASE k # 1
      <4>1. PICK i \in 1..l : i + 1 = k
        <5>1. k \in 1..l+1
          BY <2>1, <3>2
        <5>2. k - 1 \in 1..l /\ (k - 1) + 1 = k
          BY <3>2, <3>4, <5>1
        <5> QED BY <5>2
      <4>2. i \in DOMAIN uplink' /\ uplink'[i] = uplink[k]
        BY <3>2, <4>1
      <4> QED BY <2>1, <4>2, AwaitedAre
    <3> QED BY <3>3, <3>4
  <2> QED BY <2>2, <2>3 DEF EmitStep, UplinkStep
<1> QED BY <1>3, <1>4, <1>5, AwaitedAre

\* The request has the same name as before.
LEMMA SameNames ==
  ASSUME ask'.tool = ask.tool
  PROVE  Permission' = Permission /\ \A a : SameName(a)
<1>1. Permission' = Permission
  BY DEF Permission
<1> QED BY <1>1 DEF SameName

\* MirrorInv through a step that applies an action and sends it ...
LEMMA EmitMirror ==
  ASSUME HostInv, Subscribing, MirrorInv, NEW e, NEW a, EmitStep(e, a)
  PROVE  MirrorInv'
<1>1. /\ TypesRight /\ e \in {"agent", "ask", "reader"} /\ a \in ActionT /\ Emit(e, a) /\ a.type # "snapshot"
      /\ ask'.tool = ask.tool /\ subscribed' = subscribed /\ view' = view /\ blurred' = blurred
  BY DEF HostInv, EmitStep, clientVars
<1>2. chat' = Applied(chat, a) /\ flight' \in Seq(EntryT) /\ (subscribed => AddedTo(flight', flight, Entry(e, a)))
  BY <1>1, EmitIs, EmitType DEF TypesRight
<1>3. Permission' = Permission /\ \A x : SameName(x)
  BY <1>1, SameNames
<1>4. CASE ~subscribed
  <2>1. flight' = << >>
    BY <1>4, EmitTaken
  <2>2. WayGood'
    BY <2>1 DEF WayGood
  <2>3. ~InStep'
    BY <1>1, <1>4 DEF InStep
  <2> QED BY <2>2, <2>3 DEF MirrorInv, SeenMirrored
<1>5. CASE subscribed
  <2>1. PICK m : m = Entry(e, a)
    OBVIOUS
  <2>2. m.was = chat /\ m.msg = a /\ ~m.late
    BY <2>1 DEF Entry
  <2>3. AddedTo(flight', flight, m)
    BY <1>2, <1>5, <2>1
  <2>4. WayGood'
    <3>1. SameName(m.msg) /\ (\A k \in DOMAIN flight : SameName(flight[k].msg)) /\ Applied(chat, m.msg) = chat'
      BY <1>2, <1>3, <2>2
    <3> QED BY <1>1, <1>2, <2>2, <2>3, <3>1, AddedWay DEF MirrorInv
  <2>5. /\ Seen' = Seen
        /\ flight # << >> => flight'[1] = flight[1]
        /\ flight' # << >>
    BY <1>1, <1>2, <2>2, <2>3, AddedSeen
  <2>6. ASSUME InStep' PROVE InStep
    BY <1>1, <2>5, <2>6 DEF InStep
  <2>7. Awaited(uplink, flight) \subseteq Awaited(uplink', flight')
    BY <2>1, <2>3, EmitAwaited
  <2>8. ASSUME InStep' PROVE Mirror(view', Seen', Awaited(uplink', flight'), Permission')
    <3>1. PICK P, Q : P = Awaited(uplink, flight) /\ Q = Awaited(uplink', flight')
      OBVIOUS
    <3>2. Mirror(view, Seen, P, Permission)
      BY <2>6, <2>8, <3>1 DEF MirrorInv, SeenMirrored
    <3>3. Mirror(view, Seen, Q, Permission)
      BY <2>7, <3>1, <3>2, AskedMore
    <3> QED BY <1>1, <1>3, <2>5, <3>1, <3>3
  <2>9. SeenMirrored'
    BY <2>8 DEF SeenMirrored
  <2> QED BY <2>4, <2>9 DEF MirrorInv
<1> QED BY <1>4, <1>5

\* The window, the host and what is on the way to the window stay as they are.
LEMMA IdleMirror ==
  ASSUME MirrorInv, UNCHANGED <<chat, flight, view, blurred, subscribed, ask>>,
         \A k \in DOMAIN uplink : uplink[k].type = "turnStarted" =>
            \E i \in DOMAIN uplink' : uplink'[i] = uplink[k]
  PROVE  MirrorInv'
<1>1. Permission' = Permission /\ \A x : SameName(x)
  BY SameNames
<1>2. WayGood'
  <2>1. \A c, a : Applied(c, a)' = Applied(c, a)
    BY <1>1, AppliedSame
  <2>2. SUFFICES ASSUME NEW k \in DOMAIN flight, NEW f, f = flight[k], ~f.late
                 PROVE  Applied(f.was, f.msg)' = Following(flight, chat, k)
    BY DEF WayGood
  <2>3. Applied(f.was, f.msg) = Following(flight, chat, k)
    BY <2>2 DEF MirrorInv, WayGood
  <2> QED BY <2>1, <2>3
<1>3. Awaited(uplink, flight) \subseteq Awaited(uplink', flight')
  BY DEF Awaited
<1>4. ASSUME InStep' PROVE Mirror(view', Seen', Awaited(uplink', flight'), Permission')
  <2>1. PICK P, Q : P = Awaited(uplink, flight) /\ Q = Awaited(uplink', flight')
    OBVIOUS
  <2>2. InStep /\ Seen' = Seen
    BY <1>4 DEF InStep, Seen
  <2>3. Mirror(view, Seen, P, Permission)
    BY <2>1, <2>2 DEF MirrorInv, SeenMirrored
  <2>4. Mirror(view, Seen, Q, Permission)
    BY <1>3, <2>1, <2>3, AskedMore
  <2> QED BY <1>1, <2>1, <2>2, <2>4
<1> QED BY <1>2, <1>4 DEF MirrorInv, SeenMirrored

\* ... the answer to a subscription, which repeats what is on the way ...
LEMMA SubscribeMirror ==
  ASSUME HostInv, MirrorInv, Subscribing, HostSubscribes
  PROVE  MirrorInv'
<1>1. PICK m : m = Entry("reader", Snapshot)
  OBVIOUS
<1>2. TypesRight
  BY DEF HostInv
<1>3. /\ AddedTo(flight', flight, m) /\ m.was = chat /\ m.msg = Snapshot /\ m \in EntryT
      /\ chat' = chat /\ ask' = ask /\ view' = view /\ blurred' = blurred
      /\ Snapshot \in ActionT /\ Snapshot.type = "snapshot"
  BY <1>1, SubscribeFacts DEF Entry, clientVars
<1>4. flight' \in Seq(EntryT)
  BY <1>2, ReaderTypes DEF TypesRight, NetT
<1>5. Permission' = Permission /\ \A x : SameName(x)
  BY <1>3, SameNames
<1>6. WayGood'
  <2>1. chat \in ChatT
    BY <1>2, FlightEntries
  <2>2. Applied(chat, m.msg) = chat'
    BY <1>3, <2>1, AppliedNothing
  <2> QED BY <1>2, <1>3, <1>4, <1>5, <2>2, AddedWay DEF MirrorInv
<1>7. /\ Seen' = Seen
      /\ flight # << >> => flight'[1] = flight[1]
      /\ flight = << >> => flight'[1] = m
      /\ flight' # << >>
  BY <1>2, <1>3, <1>4, AddedSeen
<1>8. ASSUME InStep' PROVE Mirror(view', Seen', Awaited(uplink', flight'), Permission')
  <2>1. flight # << >>
    BY <1>3, <1>7, <1>8 DEF InStep
  <2>2. InStep
    BY <1>3, <1>7, <1>8, <2>1 DEF InStep, Subscribing
  <2>3. Awaited(uplink, flight) \subseteq Awaited(uplink', flight')
    <3>1. uplink # << >> /\ uplink' = Tail(uplink) /\ Head(uplink).type = "subscribe" /\ uplink \in Seq(RequestT)
      BY <1>2 DEF HostSubscribes, ReaderTakes, TypesRight, NetT
    <3>2. PICK l \in Nat : DOMAIN uplink = 1..l+1 /\ DOMAIN uplink' = 1..l /\ \A i \in 1..l : uplink'[i] = uplink[i + 1]
      BY <3>1, Tails DEF TailOf
    <3>3. uplink[1].type = "subscribe"
      BY <3>1, Tails
    <3>4. PICK n \in Nat : /\ DOMAIN flight = 1..n /\ DOMAIN flight' = 1..n+1
                           /\ \A i \in 1..n : flight'[i] = flight[i]
      BY <1>3 DEF AddedTo
    <3>5. SUFFICES ASSUME NEW t, t \in Awaited(uplink, flight) PROVE t \in Awaited(uplink', flight')
      OBVIOUS
    <3>6. CASE \E k \in DOMAIN flight : flight[k].msg.type = "turnStarted" /\ flight[k].msg.turn = t
      <4>1. PICK k \in 1..n : flight[k].msg.type = "turnStarted" /\ flight[k].msg.turn = t
        BY <3>4, <3>6
      <4>2. k \in DOMAIN flight' /\ flight'[k] = flight[k]
        BY <3>4
      <4> QED BY <4>1, <4>2, AwaitedAre
    <3>7. CASE \E k \in DOMAIN uplink : uplink[k].type = "turnStarted" /\ uplink[k].turn = t
      <4>1. PICK k \in 1..l+1 : uplink[k].type = "turnStarted" /\ uplink[k].turn = t
        BY <3>2, <3>7
      <4>2. k # 1
        BY <3>3, <4>1
      <4>3. k - 1 \in 1..l /\ (k - 1) + 1 = k
        BY <3>2, <4>2
      <4>4. k - 1 \in DOMAIN uplink' /\ uplink'[k - 1] = uplink[k]
        BY <3>2, <4>3
      <4> QED BY <4>1, <4>4, AwaitedAre
    <3> QED BY <3>5, <3>6, <3>7, AwaitedAre
  <2>4. PICK P, Q : P = Awaited(uplink, flight) /\ Q = Awaited(uplink', flight')
    OBVIOUS
  <2>5. Mirror(view, Seen, P, Permission)
    BY <2>2, <2>4 DEF MirrorInv, SeenMirrored
  <2>6. Mirror(view, Seen, Q, Permission)
    BY <2>3, <2>4, <2>5, AskedMore
  <2> QED BY <1>3, <1>5, <1>7, <2>4, <2>6
<1> QED BY <1>6, <1>8 DEF MirrorInv, SeenMirrored

\* ... a connection that is lost ...
LEMMA DropMirror ==
  ASSUME Drop
  PROVE  MirrorInv'
<1>1. flight' = << >> /\ blurred'
  BY DEF Drop
<1>2. WayGood'
  BY <1>1 DEF WayGood
<1>3. ~InStep'
  BY <1>1 DEF InStep
<1> QED BY <1>2, <1>3 DEF MirrorInv, SeenMirrored

-----------------------------------------------------------------------------
\* A request gets a name that no call has yet.
LEMMA RegisterMirror ==
  ASSUME HostInv, MirrorInv, AskRegisters
  PROVE  MirrorInv'
<1>1. /\ TypesRight /\ HostGood /\ count.tool \in Nat
      /\ \A k \in DOMAIN flight : flight[k] \in EntryT
  BY FlightEntries DEF HostInv
<1>2. /\ UNCHANGED <<chat, flight, uplink, view, blurred, subscribed>>
      /\ ask.tool = 0 /\ ask'.tool = count.tool + 1
  BY DEF AskRegisters, AskIdle, netVars, clientVars
<1>3. Permission = 0 /\ Permission' = count.tool + 1
  BY <1>2 DEF Permission
<1>4. \A k \in DOMAIN flight : SameName(flight[k].msg)
  <2>1. SUFFICES ASSUME NEW k \in DOMAIN flight, NEW a, a = flight[k].msg, a.type = "toolCallReady"
                 PROVE  a.tool # Permission /\ a.tool # Permission'
    BY DEF SameName
  <2>2. WasGood(flight[k], count.turn, count.tool, Permission, ask.turn)
    BY <1>1 DEF HostGood
  <2>3. Says(a, count.turn, count.tool, Permission)
    BY <2>1, <2>2 DEF WasGood, MessageGood
  <2>4. a.tool \in 1..count.tool
    BY <2>1, <2>3 DEF Says, Settles
  <2> QED BY <1>1, <1>3, <2>4
<1>5. WayGood'
  <2>1. SUFFICES ASSUME NEW k \in DOMAIN flight, NEW f, f = flight[k], ~f.late
                 PROVE  Applied(f.was, f.msg)' = Following(flight, chat, k)
    BY <1>2 DEF WayGood
  <2>2. Applied(f.was, f.msg) = Following(flight, chat, k)
    BY <2>1 DEF MirrorInv, WayGood
  <2>3. SameName(f.msg)
    BY <1>4, <2>1
  <2> QED BY <2>2, <2>3, AppliedSame
<1>6. ASSUME InStep' PROVE Mirror(view', Seen', Awaited(uplink', flight'), Permission')
  <2>1. InStep /\ Seen' = Seen /\ Awaited(uplink', flight') = Awaited(uplink, flight) /\ view' = view
    BY <1>2, <1>6 DEF InStep, Seen
  <2>2. PICK c \in ChatT : c = Seen /\ ChatGood(c, count.turn, count.tool, Permission, ask.turn)
    BY SeenGood
  <2>3. PICK P : P = Awaited(uplink, flight)
    OBVIOUS
  <2>4. Mirror(view, c, P, Permission)
    BY <2>1, <2>2, <2>3 DEF MirrorInv, SeenMirrored
  <2>5. \A p \in Tools(c) : Visible(p, Permission') => Visible(p, Permission)
    <3>1. SUFFICES ASSUME NEW p \in Tools(c) PROVE p.tool # Permission
      BY DEF Visible
    <3>2. PICK t \in TurnSet(c) : \E i \in DOMAIN t.parts : p = t.parts[i] /\ t.parts[i].kind = "tool"
      BY DEF Tools
    <3>3. PICK i \in DOMAIN t.parts : p = t.parts[i] /\ p.kind = "tool"
      BY <3>2
    <3>4. PartGood(p, t.id, count.tool, Permission, ask.turn)
      BY <2>2, <3>3 DEF ChatGood, TurnGood
    <3>5. p.tool \in 1..count.tool
      BY <3>3, <3>4 DEF PartGood
    <3> QED BY <1>1, <1>3, <3>5
  <2>6. Shown(view.rows, c, Permission')
    BY <2>4, <2>5 DEF Mirror, Carded, Shown
  <2>7. Mirror(view, c, P, Permission')
    BY <2>4, <2>6 DEF Mirror, Carded
  <2> QED BY <2>1, <2>2, <2>3, <2>7
<1> QED BY <1>5, <1>6 DEF MirrorInv, SeenMirrored

\* A turn of the window itself is shown before the host has it.
LEMMA PromptShown ==
  ASSUME NEW v \in ViewT, NEW w, NEW c \in ChatT, NEW P, NEW Q, NEW perm, NEW t \in Nat, t # 0,
         NEW a, a.turn = t,
         Mirror(v, c, P, perm), t \notin Ids(c), v.turn = 0, P \subseteq Q, t \in Q, StartShown(w, v, a)
  PROVE  Mirror(w, c, Q, perm)
<1>1. PICK R \in Seq(RowT) : R = v.rows
  BY DEF ViewT
<1>2. PICK x \in RowT : Changes(w.rows, R, x) /\ x.kind = "user" /\ x.turn = t
  BY <1>1, UserChanges DEF StartShown
<1>3. PICK q : q = w.rows
  OBVIOUS
<1>4. x.kind # "agent" /\ ~IsCard(x) /\ x.kind # "error"
  BY <1>2 DEF IsCard
<1>5. Working(w.turn, c, Q)
  BY DEF Mirror, Working, StartShown
<1>6. Asked(q, c, Q)
  <2>1. \A s : s \in Users(q) <=> s \in Users(R) \/ s = t
    BY <1>2, <1>3, ChangesTurns
  <2>2. Users(R) \subseteq Ids(c) \cup P /\ Ids(c) \subseteq Users(R)
    BY <1>1 DEF Mirror, Asked
  <2> QED BY <2>1, <2>2 DEF Asked
<1>7. Told(q, c)
  <2>1. \A s : s \in Texted(q) <=> s \in Texted(R)
    BY <1>2, <1>3, <1>4, ChangesTurns
  <2>2. \A id : TextOfRows(q, id) = TextOfRows(R, id)
    BY <1>2, <1>3, <1>4, ChangesNoText
  <2> QED BY <1>1, <2>1, <2>2 DEF Mirror, Told
<1>8. Layered(q, t, 0)
  <2>1. t \notin Texted(R)
    BY <1>1 DEF Mirror, Told
  <2>2. Layered(R, t, 0)
    BY <2>1, NoTextOf
  <2> QED BY <1>2, <1>3, <1>4, <2>2, ChangesNoText
<1>9. Failures(q, c)
  BY <1>1, <1>2, <1>3, <1>4, ChangesNoError DEF Mirror, Failures
<1>10. Carded(q, c, perm)
  BY <1>1, <1>2, <1>3, <1>4, ChangesNoCard DEF Mirror
<1>11. w.proj = t /\ w.segment = 0
  BY DEF StartShown
<1> QED BY <1>3, <1>5, <1>6, <1>7, <1>8, <1>9, <1>10, <1>11 DEF Mirror

\* ... a prompt, shown at once ...
LEMMA PromptMirror ==
  ASSUME HostInv, MirrorInv, Prompt
  PROVE  MirrorInv'
<1>1. TypesRight /\ view \in ViewT /\ uplink \in Seq(RequestT) /\ count.turn \in Nat
  BY FlightEntries DEF HostInv, TypesRight, WindowT, NetT
<1>2. PICK t \in Nat : t = count.turn + 1 /\ t # 0
  BY <1>1
<1>3. PICK a : a = Action("turnStarted", t, 0, "")
  OBVIOUS
<1>4. PICK r : r = Request("turnStarted", t, "")
  OBVIOUS
<1>5. /\ UNCHANGED <<chat, flight, blurred, subscribed, ask>> /\ view.turn = 0
      /\ uplink' = Append(uplink, r) /\ view' = TurnStarted(view, a)
  BY <1>2, <1>3, <1>4 DEF Prompt, sdkVars
<1>6. a.turn = t /\ r.turn = t /\ r.type = "turnStarted"
  BY <1>3, <1>4 DEF Action, Request
<1>7. r \in RequestT
  BY <1>4, RequestType DEF Words
<1>8. AddedTo(uplink', uplink, r)
  BY <1>1, <1>5, <1>7, AppendAdds
<1>9. PICK n \in Nat : DOMAIN uplink = 1..n /\ DOMAIN uplink' = 1..n+1 /\ uplink'[n+1] = r
                       /\ \A i \in 1..n : uplink'[i] = uplink[i]
  BY <1>8 DEF AddedTo
<1>10. Awaited(uplink, flight) \subseteq Awaited(uplink', flight') /\ t \in Awaited(uplink', flight')
  <2>1. n + 1 \in DOMAIN uplink' /\ uplink'[n+1].type = "turnStarted" /\ uplink'[n+1].turn = t
    BY <1>6, <1>9
  <2>2. \A k \in DOMAIN uplink : k \in DOMAIN uplink' /\ uplink'[k] = uplink[k]
    BY <1>9
  <2>3. t \in Awaited(uplink', flight')
    BY <2>1, AwaitedAre
  <2>4. ASSUME NEW s, s \in Awaited(uplink, flight) PROVE s \in Awaited(uplink', flight')
    <3>1. CASE \E k \in DOMAIN flight : flight[k].msg.type = "turnStarted" /\ flight[k].msg.turn = s
      BY <1>5, <3>1, AwaitedAre
    <3>2. CASE \E k \in DOMAIN uplink : uplink[k].type = "turnStarted" /\ uplink[k].turn = s
      <4>1. PICK k \in DOMAIN uplink : uplink[k].type = "turnStarted" /\ uplink[k].turn = s
        BY <3>2
      <4>2. k \in DOMAIN uplink' /\ uplink'[k] = uplink[k]
        BY <2>2
      <4> QED BY <4>1, <4>2, AwaitedAre
    <3> QED BY <2>4, <3>1, <3>2, AwaitedAre
  <2> QED BY <2>3, <2>4
<1>11. Permission' = Permission /\ \A x : SameName(x)
  BY <1>5, SameNames
<1>12. WayGood'
  <2>1. SUFFICES ASSUME NEW k \in DOMAIN flight, NEW f, f = flight[k], ~f.late
                 PROVE  Applied(f.was, f.msg)' = Following(flight, chat, k)
    BY <1>5 DEF WayGood
  <2>2. Applied(f.was, f.msg) = Following(flight, chat, k)
    BY <2>1 DEF MirrorInv, WayGood
  <2> QED BY <1>11, <2>2, AppliedSame
<1>13. ASSUME InStep' PROVE Mirror(view', Seen', Awaited(uplink', flight'), Permission')
  <2>1. InStep /\ Seen' = Seen
    BY <1>5, <1>13 DEF InStep, Seen
  <2>2. PICK c \in ChatT : c = Seen /\ ChatGood(c, count.turn, count.tool, Permission, ask.turn)
    BY SeenGood
  <2>3. PICK P, Q : P = Awaited(uplink, flight) /\ Q = Awaited(uplink', flight')
    OBVIOUS
  <2>4. Mirror(view, c, P, Permission)
    BY <2>1, <2>2, <2>3 DEF MirrorInv, SeenMirrored
  <2>5. t \notin Ids(c)
    <3>1. \A u \in TurnSet(c) : u.id \in 1..count.turn
      BY <2>2 DEF ChatGood
    <3>2. t \notin 1..count.turn
      BY <1>1, <1>2
    <3> QED BY <3>1, <3>2 DEF Ids
  <2>6. PICK w : w = view' /\ StartShown(w, view, a)
    BY <1>1, <1>5, StartIs
  <2>7. Mirror(w, c, Q, Permission)
    BY <1>1, <1>2, <1>5, <1>6, <1>10, <2>3, <2>4, <2>5, <2>6, PromptShown
  <2> QED BY <1>11, <2>1, <2>2, <2>3, <2>6, <2>7
<1> QED BY <1>12, <1>13 DEF MirrorInv, SeenMirrored

-----------------------------------------------------------------------------
\* When a message has arrived, those behind it still lead to the host's chat.
LEMMA ReceiveWay ==
  ASSUME HostInv, WayGood, NEW i \in DOMAIN flight, Arrived(i)
  PROVE  /\ WayGood'
         /\ flight' \in Seq(EntryT)
         /\ i # 1 => flight' # << >> /\ flight'[1].late
         /\ i = 1 /\ ~flight[1].late => Seen' = Applied(flight[1].was, flight[1].msg)
<1>1. TypesRight /\ flight \in Seq(EntryT)
  BY FlightEntries DEF HostInv
<1>2. PICK n \in Nat :
        /\ DOMAIN flight = 1..n+1 /\ DOMAIN flight' = 1..n /\ i \in 1..n+1
        /\ \A j \in 1..n : \/ /\ j < i /\ flight'[j].late
                              /\ flight'[j].msg = flight[j].msg /\ flight'[j].was = flight[j].was
                           \/ j >= i /\ flight'[j] = flight[j + 1]
  BY <1>1, ArrivedWithout DEF Without
<1>3. flight' \in Seq(EntryT)
  BY <1>1, ShiftedType DEF Arrived
<1>4. Len(flight) = n + 1 /\ Len(flight') = n
  <2>1. Len(flight) \in Nat /\ DOMAIN flight = 1..Len(flight)
    BY <1>1, LenProperties
  <2>2. Len(flight') \in Nat /\ DOMAIN flight' = 1..Len(flight')
    BY <1>3, LenProperties
  <2> QED BY <1>2, <2>1, <2>2
<1>5. chat' = chat /\ ask' = ask
  BY DEF Arrived
<1>6. \A x : SameName(x)
  BY <1>5, SameNames
<1>7. WayGood'
  <2>1. SUFFICES ASSUME NEW k \in 1..n, NEW f, f = flight'[k], ~f.late
                 PROVE  Applied(f.was, f.msg)' = Following(flight', chat', k)
    BY <1>2 DEF WayGood
  <2>2. k >= i /\ f = flight[k + 1] /\ k + 1 \in 1..n+1
    BY <1>2, <2>1
  <2>3. Applied(f.was, f.msg) = Following(flight, chat, k + 1)
    BY <1>2, <2>1, <2>2 DEF WayGood
  <2>4. Following(flight', chat', k) = Following(flight, chat, k + 1)
    <3>1. CASE k = n
      BY <1>4, <1>5, <3>1 DEF Following
    <3>2. CASE k # n
      <4>1. k + 1 \in 1..n /\ k + 1 >= i /\ ~(k + 1 < i) /\ k + 1 # n + 1
        BY <1>2, <2>2, <3>2
      <4>2. flight'[k + 1] = flight[(k + 1) + 1]
        BY <1>2, <4>1
      <4>3. Following(flight, chat, k + 1) = flight[(k + 1) + 1].was
        BY <1>4, <4>1 DEF Following
      <4>4. Following(flight', chat', k) = flight'[k + 1].was
        BY <1>4, <3>2 DEF Following
      <4> QED BY <4>2, <4>3, <4>4
    <3> QED BY <3>1, <3>2
  <2> QED BY <1>6, <2>3, <2>4, AppliedSame
<1>8. ASSUME i # 1 PROVE flight' # << >> /\ flight'[1].late
  <2>1. 1 \in 1..n /\ 1 < i /\ ~(1 >= i)
    BY <1>2, <1>8
  <2>2. 1 \in DOMAIN flight'
    BY <1>2, <2>1
  <2> QED BY <1>2, <1>3, <2>1, <2>2, EmptyIs
<1>9. ASSUME i = 1, ~flight[1].late PROVE Seen' = Applied(flight[1].was, flight[1].msg)
  <2>1. 1 \in DOMAIN flight
    BY <1>9
  <2>2. Applied(flight[1].was, flight[1].msg) = Following(flight, chat, 1)
    BY <1>9, <2>1 DEF WayGood
  <2>3. CASE n = 0
    <3>1. DOMAIN flight' = {}
      BY <1>2, <2>3
    <3>2. flight' = << >>
      BY <1>3, <3>1, EmptyIs
    <3>3. Following(flight, chat, 1) = chat
      BY <1>4, <2>3 DEF Following
    <3> QED BY <1>5, <2>2, <3>2, <3>3 DEF Seen
  <2>4. CASE n # 0
    <3>1. 1 \in 1..n /\ 1 # n + 1 /\ ~(1 < i)
      BY <1>2, <1>9, <2>4
    <3>2. flight'[1] = flight[1 + 1]
      BY <1>2, <3>1
    <3>3. Following(flight, chat, 1) = flight[1 + 1].was
      BY <1>4, <3>1 DEF Following
    <3>4. 1 \in DOMAIN flight'
      BY <1>2, <3>1
    <3>5. flight' # << >>
      BY <1>3, <3>4, EmptyIs
    <3> QED BY <2>2, <3>2, <3>3, <3>5 DEF Seen
  <2> QED BY <2>3, <2>4
<1> QED BY <1>3, <1>7, <1>8, <1>9

\* Only the turn a message announces is no longer about to start when it arrives.
LEMMA ReceiveAwaited ==
  ASSUME HostInv, NEW i \in DOMAIN flight, Arrived(i), NEW m, m = flight[i]
  PROVE  Awaited(uplink, flight) \subseteq
            Awaited(uplink', flight') \cup (IF m.msg.type = "turnStarted" THEN {m.msg.turn} ELSE {})
<1>1. PICK n \in Nat :
        /\ DOMAIN flight = 1..n+1 /\ DOMAIN flight' = 1..n /\ i \in 1..n+1
        /\ \A j \in 1..n : \/ /\ j < i /\ flight'[j].late
                              /\ flight'[j].msg = flight[j].msg /\ flight'[j].was = flight[j].was
                           \/ j >= i /\ flight'[j] = flight[j + 1]
  BY ArrivedWithout DEF Without, HostInv
<1>2. uplink' = uplink
  BY DEF Arrived
<1>3. SUFFICES ASSUME NEW t, t \in Awaited(uplink, flight), t \notin Awaited(uplink', flight')
               PROVE  m.msg.type = "turnStarted" /\ t = m.msg.turn
  OBVIOUS
<1>4. ~ \E k \in DOMAIN uplink : uplink[k].type = "turnStarted" /\ uplink[k].turn = t
  BY <1>2, <1>3, AwaitedAre
<1>5. PICK k \in 1..n+1 : flight[k].msg.type = "turnStarted" /\ flight[k].msg.turn = t
  BY <1>1, <1>3, <1>4, AwaitedAre
<1>6. ~ \E j \in 1..n : flight'[j].msg = flight[k].msg
  BY <1>1, <1>3, <1>5, AwaitedAre
<1>7. CASE k < i
  <2>1. k \in 1..n /\ ~(k >= i)
    BY <1>1, <1>7
  <2> QED BY <1>1, <1>6, <2>1
<1>8. CASE k > i
  <2>1. k - 1 \in 1..n /\ k - 1 >= i /\ ~(k - 1 < i) /\ (k - 1) + 1 = k
    BY <1>1, <1>8
  <2> QED BY <1>1, <1>6, <2>1
<1>9. CASE k = i
  BY <1>5, <1>9
<1>10. k < i \/ k > i \/ k = i
  BY <1>1
<1> QED BY <1>7, <1>8, <1>9, <1>10

\* ... a message that arrives: a snapshot or the next action for the chat it was
\* made from ...
LEMMA ReceiveMirror ==
  ASSUME HostInv, Subscribing, MirrorInv, NEW i \in DOMAIN flight, Arrived(i)
  PROVE  MirrorInv'
<1>1. WayGood'
  BY ReceiveWay DEF MirrorInv
<1>2. SUFFICES ASSUME InStep' PROVE Mirror(view', Seen', Awaited(uplink', flight'), Permission')
  BY <1>1 DEF MirrorInv, SeenMirrored
<1>3. i = 1
  BY <1>2, ReceiveWay DEF InStep, MirrorInv
<1>4. PICK m \in EntryT :
        /\ m = flight[i] /\ view' = Projected(view, m) /\ view \in ViewT
        /\ WasGood(m, count.turn, count.tool, Permission, ask.turn)
        /\ subscribed' = subscribed /\ Permission' = Permission
  BY ReceiveFacts
<1>5. /\ m.msg \in ActionT /\ m.was \in ChatT /\ count.turn \in Nat /\ count.tool \in Nat
      /\ ChatGood(m.was, count.turn, count.tool, Permission, ask.turn)
  BY <1>4, HostFacts DEF EntryT, WasGood
<1>6. PICK P, Q : P = Awaited(uplink, flight) /\ Q = Awaited(uplink', flight')
  OBVIOUS
<1>7. ~m.late
  <2>1. ~blurred'
    BY <1>2 DEF InStep
  <2> QED BY <1>4, <2>1 DEF Arrived
<1>8. Seen' = Applied(m.was, m.msg)
  BY <1>3, <1>4, <1>7, ReceiveWay DEF MirrorInv
<1>9. CASE m.msg.type = "snapshot"
  <2>1. Seen' = m.was
    BY <1>5, <1>8, <1>9, AppliedNothing
  <2>2. PICK w : w = view' /\ w = SnapshotArrives(view, m.was)
    BY <1>4, <1>9 DEF Projected
  <2>3. /\ w.rows = RowsOf(ShownTurns(m.was)) /\ w.turn = m.was.active.id /\ w.proj = m.was.active.id
    BY <1>4, <1>5, <2>2, SnapshotIs
  <2>4. w.segment \in Nat
    BY <1>4, <1>5, <2>2, SnapshotType DEF ViewT
  <2>5. PICK c \in ChatT : c = m.was /\ ChatGood(c, count.turn, count.tool, Permission, ask.turn)
    BY <1>5
  <2>6. Mirror(w, c, Q, Permission)
    BY <1>4, <1>5, <2>3, <2>4, <2>5, MirrorSnapshot
  <2> QED BY <1>4, <1>6, <2>1, <2>2, <2>5, <2>6
<1>10. CASE m.msg.type # "snapshot"
  <2>1. ~blurred /\ ~Foreign(m) /\ subscribed
    <3>1. ~blurred'
      BY <1>2 DEF InStep
    <3>2. subscribed
      BY <1>2, <1>4 DEF InStep
    <3> QED BY <1>4, <1>10, <3>1, <3>2 DEF Arrived
  <2>2. ~ForeignTo(view, m)
    BY <2>1 DEF Foreign, ForeignTo
  <2>3. InStep /\ Seen = m.was
    <3>1. flight # << >>
      <4>1. DOMAIN flight # {}
        OBVIOUS
      <4> QED BY <4>1, EmptyIs
    <3> QED BY <1>3, <1>4, <1>7, <1>10, <2>1, <3>1 DEF InStep, Seen
  <2>4. Mirror(view, m.was, P, Permission)
    BY <1>6, <2>3 DEF MirrorInv, SeenMirrored
  <2>5. P \subseteq Q \cup (IF m.msg.type = "turnStarted" THEN {m.msg.turn} ELSE {})
    BY <1>4, <1>6, ReceiveAwaited
  <2>6. Mirror(Projected(view, m), Applied(m.was, m.msg), Q, Permission)
    BY <1>4, <1>5, <1>10, <2>2, <2>4, <2>5, MirrorStep
  <2> QED BY <1>4, <1>6, <1>8, <2>6
<1> QED BY <1>9, <1>10

-----------------------------------------------------------------------------
\* ... what the user does ...
LEMMA ClickMirror ==
  ASSUME HostInv, MirrorInv, OpenSession \/ Cancel \/ Answer
  PROVE  MirrorInv'
<1>1. uplink \in Seq(RequestT) /\ view.turn \in Nat
  BY DEF HostInv, TypesRight, NetT, WindowT, ViewT
<1>2. PICK r : uplink' = Append(uplink, r) /\ r \in RequestT
  <2>1. CASE OpenSession
    <3>1. Request("subscribe", 0, "") \in RequestT
      BY RequestType DEF Words
    <3> QED BY <2>1, <3>1 DEF OpenSession
  <2>2. CASE Cancel
    <3>1. Request("turnCancelled", view.turn, "") \in RequestT
      BY <1>1, RequestType DEF Words
    <3> QED BY <2>2, <3>1 DEF Cancel, Click
  <2>3. CASE Answer
    <3>1. \A no \in {"approved", "denied"} : Request("toolCallConfirmed", view.turn, no) \in RequestT
      BY <1>1, RequestType DEF Words
    <3>2. PICK no \in {"approved", "denied"} : uplink' = Append(uplink, Request("toolCallConfirmed", view.turn, no))
      BY <2>3 DEF Answer, Click
    <3> QED BY <3>1, <3>2
  <2> QED BY <2>1, <2>2, <2>3
<1>3. UNCHANGED <<chat, flight, view, blurred, subscribed, ask>>
  BY DEF OpenSession, Cancel, Answer, Click, hostVars, sdkVars
<1>4. AddedTo(uplink', uplink, r)
  BY <1>1, <1>2, AppendAdds
<1>5. \A k \in DOMAIN uplink : k \in DOMAIN uplink' /\ uplink'[k] = uplink[k]
  BY <1>4 DEF AddedTo
<1> QED BY <1>3, <1>5, IdleMirror

\* An answer to a request that waits no longer is forgotten.
LEMMA ResolveMirror ==
  ASSUME HostInv, MirrorInv, ReaderTakes("toolCallConfirmed"),
         UNCHANGED <<chat, registered, flight, count, agent, ask, subscribed, clientVars>>
  PROVE  MirrorInv'
<1>1. uplink \in Seq(RequestT) /\ uplink # << >> /\ uplink' = Tail(uplink) /\ uplink[1].type = "toolCallConfirmed"
  BY TakenFacts DEF HostInv, TypesRight, NetT
<1>2. PICK l \in Nat : DOMAIN uplink = 1..l+1 /\ DOMAIN uplink' = 1..l /\ \A i \in 1..l : uplink'[i] = uplink[i + 1]
  BY <1>1, Tails DEF TailOf
<1>3. ASSUME NEW k \in DOMAIN uplink, uplink[k].type = "turnStarted"
      PROVE  \E i \in DOMAIN uplink' : uplink'[i] = uplink[k]
  <2>1. k # 1 /\ k \in 1..l+1
    BY <1>1, <1>2, <1>3
  <2>2. k - 1 \in 1..l /\ (k - 1) + 1 = k
    BY <1>2, <2>1
  <2> QED BY <1>2, <2>2
<1>4. UNCHANGED <<chat, flight, view, blurred, subscribed, ask>>
  BY DEF clientVars
<1> QED BY <1>3, <1>4, IdleMirror

\* ... and so through every step ...
LEMMA NextMirror ==
  ASSUME HostInv, ScreenInv, TextInv, MirrorInv, [NextChat]_varsChat
  PROVE  MirrorInv'
<1>a. Subscribing
  BY DEF TextInv
<1>1. CASE \/ AgentText \/ AgentStartsTool \/ AgentToolReady \/ AgentToolComplete \/ AgentEnds
           \/ AskEmits \/ HostStartsTurn \/ OtherStartsTurn \/ HostCancelsTurn
  BY <1>a, <1>1, EmittingSteps, EmitMirror
<1>2. CASE ResolvePermission
  BY <1>a, <1>2, ResolveStep, EmitMirror, ResolveMirror
<1>3. CASE AskRegisters
  BY <1>3, RegisterMirror
<1>4. CASE HostSubscribes
  BY <1>a, <1>4, SubscribeMirror
<1>5. CASE Connect
  BY <1>5, IdleMirror DEF Connect, hostVars, sdkVars, netVars
<1>6. CASE OpenSession \/ Cancel \/ Answer
  BY <1>6, ClickMirror
<1>7. CASE Prompt
  BY <1>7, PromptMirror
<1>9. CASE Drop
  BY <1>9, DropMirror
<1>10. CASE \E i \in DOMAIN flight : Receive(i)
  BY <1>a, <1>10, ReceiveIs, ReceiveMirror
<1>11. CASE UNCHANGED varsChat
  BY <1>11, IdleMirror DEF varsChat, hostVars, sdkVars, netVars, clientVars
<1> QED BY <1>1, <1>2, <1>3, <1>4, <1>5, <1>6, <1>7, <1>9, <1>10, <1>11 DEF NextChat

\* ... from the beginning.
LEMMA InitMirror == InitChat => MirrorInv
<1> SUFFICES ASSUME InitChat PROVE MirrorInv
  OBVIOUS
<1>1. flight = << >> /\ ~subscribed
  BY DEF InitChat
<1>2. WayGood
  BY <1>1 DEF WayGood
<1> QED BY <1>1, <1>2 DEF MirrorInv, SeenMirrored, InStep

-----------------------------------------------------------------------------
\* The elements of a sequence, by place.
LEMMA SetOf ==
  ASSUME NEW s, NEW x
  PROVE  x \in ToSet(s) <=> \E i \in DOMAIN s : s[i] = x
  BY DEF ToSet

\* A row of the lane is a row of a request.
LEMMA LaneRows ==
  ASSUME NEW rows \in Seq(RowT), NEW r \in ToSet(Lane(rows))
  PROVE  \E i \in DOMAIN rows : r = rows[i] /\ r.kind = "approval"
<1>1. PICK g : g = [i \in DOMAIN rows |-> IF rows[i].kind = "approval" /\ rows[i].state = "pending"
                                          THEN <<rows[i]>> ELSE << >>]
  OBVIOUS
<1>2. Lane(rows) = FlattenSeq(g)
  BY <1>1 DEF Lane, Kept
<1>3. g = [i \in DOMAIN rows |-> g[i]] /\ \A i \in DOMAIN rows : g[i] \in {<< >>, <<rows[i]>>}
  BY <1>1
<1>4. g \in Seq(Seq(RowT)) /\ FlattenSeq(g) \in Seq(RowT)
  BY <1>3, KeptType
<1>5. DOMAIN rows = 1..Len(rows) /\ DOMAIN g = 1..Len(g) /\ DOMAIN g = DOMAIN rows /\ Len(g) \in Nat
  BY <1>1, <1>4, LenProperties
<1>6. PICK F, l : F = FlattenSeq(g) /\ l = Len(F)
  OBVIOUS
<1>7. DOMAIN F = 1..l
  BY <1>4, <1>6, LenProperties
<1>8. PICK b, o : Placed(F, l, g, Len(g), b, o)
  BY <1>4, <1>6, FlattenPlaces
<1>9. PICK k \in 1..l : F[k] = r
  BY <1>2, <1>6, <1>7, SetOf
<1>10. PICK i : i = b[k]
  OBVIOUS
<1>11. i \in DOMAIN rows /\ o[k] \in 1..Len(g[i]) /\ r = g[i][o[k]]
  BY <1>5, <1>8, <1>9, <1>10 DEF Placed, Origin
<1>12. CASE rows[i].kind = "approval" /\ rows[i].state = "pending"
  <2>1. g[i] = <<rows[i]>> /\ Len(g[i]) = 1
    BY <1>1, <1>11, <1>12
  <2>2. o[k] = 1
    BY <1>11, <2>1
  <2>3. r = rows[i]
    BY <1>11, <2>1, <2>2
  <2> QED BY <1>11, <1>12, <2>3
<1>13. CASE ~(rows[i].kind = "approval" /\ rows[i].state = "pending")
  <2>1. g[i] = << >>
    BY <1>1, <1>11, <1>13
  <2>2. Len(g[i]) = 0
    BY <2>1
  <2> QED BY <1>11, <2>2
<1> QED BY <1>12, <1>13

\* A settled window has seen the host's chat and waits for no turn.
LEMMA SettledSeen ==
  ASSUME Subscribing, MirrorInv, Settled
  PROVE  Mirror(view, chat, {}, Permission)
<1>1. flight = << >> /\ uplink = << >> /\ ~blurred /\ link.known
  BY DEF Settled, Quiet
<1>2. DOMAIN uplink = {} /\ DOMAIN flight = {}
  BY <1>1
<1>3. subscribed
  BY <1>1, <1>2 DEF Subscribing
<1>4. InStep /\ Seen = chat
  BY <1>1, <1>3 DEF InStep, Seen
<1>5. Awaited(uplink, flight) = {}
  <2>1. \A t : t \notin Awaited(uplink, flight)
    BY <1>2, AwaitedAre
  <2> QED BY <2>1
<1> QED BY <1>4, <1>5 DEF MirrorInv, SeenMirrored

\* The turns of the host's chat.
LEMMA HostTurnsAre ==
  ASSUME TypesRight
  PROVE  ToSet(HostTurns) = TurnSet(chat)
<1>1. HostTurns = ShownTurns(chat) /\ chat \in ChatT
  BY FlightEntries DEF HostTurns, ShownTurns, past, active
<1>2. \A t : t \in ToSet(HostTurns) <=> t \in TurnSet(chat)
  BY <1>1, ShownAre, SetOf
<1> QED BY <1>2

\* A window that shows the host's chat has its messages, text and errors ...
LEMMA TextsMirrored ==
  ASSUME TypesRight, Mirror(view, chat, {}, Permission)
  PROVE  TextMirrored
<1>1. ToSet(HostTurns) = TurnSet(chat)
  BY HostTurnsAre
<1>2. {view.rows[i].turn : i \in OfKind(view.rows, "user")} = {t.id : t \in ToSet(HostTurns)}
  <2>1. Users(view.rows) = Ids(chat)
    BY DEF Mirror, Asked
  <2> QED BY <1>1, <2>1 DEF Users, Ids, OfKind
<1>3. \A t \in ToSet(HostTurns) : TextOfRows(view.rows, t.id) = TextOfTurn(t)
  BY <1>1 DEF Mirror, Told
<1>4. \A i \in OfKind(view.rows, "agent") : \E t \in ToSet(HostTurns) : t.id = view.rows[i].turn
  <2>1. Texted(view.rows) \subseteq Ids(chat)
    BY DEF Mirror, Told
  <2>2. SUFFICES ASSUME NEW i \in OfKind(view.rows, "agent") PROVE view.rows[i].turn \in Ids(chat)
    BY <1>1 DEF Ids
  <2>3. view.rows[i].turn \in Texted(view.rows)
    BY <2>2 DEF OfKind, Texted
  <2> QED BY <2>1, <2>3
<1>5. Cardinality(OfKind(view.rows, "error")) = Cardinality({i \in DOMAIN past : past[i].failed})
  BY DEF Mirror, Failures, ErrorsOf, FailedOf, OfKind, past
<1> QED BY <1>2, <1>3, <1>4, <1>5 DEF TextMirrored

\* ... its cards ...
LEMMA CallsMirrored ==
  ASSUME TypesRight, Mirror(view, chat, {}, Permission)
  PROVE  CardsMirrored
<1>1. SUFFICES ASSUME NEW t \in ToSet(HostTurns), NEW p \in ToSet(t.parts), p.kind = "tool",
                      p.status # "streaming", NEW r \in ToSet(CardsOfPart(p))
               PROVE  r \in ToSet(view.rows)
  BY DEF CardsMirrored
<1>2. t \in TurnSet(chat)
  BY <1>1, HostTurnsAre
<1>3. p \in Tools(chat)
  <2>1. PICK i \in DOMAIN t.parts : t.parts[i] = p
    BY <1>1, SetOf
  <2> QED BY <1>1, <1>2, <2>1 DEF Tools
<1>4. PICK k \in DOMAIN CardsOfPart(p) : CardsOfPart(p)[k] = r
  BY <1>1, SetOf
<1>5. CardsOfPart(p) # << >> /\ Visible(p, Permission)
  <2>1. CardsOfPart(p) # << >>
    BY <1>4
  <2>2. ~(p.status = "cancelled" \/ (p.tool = Permission /\ p.status # "pending-confirmation"))
    BY <2>1 DEF CardsOfPart
  <2> QED BY <1>1, <2>1, <2>2 DEF Visible
<1>6. r = CardFor(p)
  <2>1. \E x : CardsOfPart(p) = <<x>>
    BY <1>5 DEF CardsOfPart
  <2>2. PICK x : CardsOfPart(p) = <<x>>
    BY <2>1
  <2>3. k = 1
    BY <1>4, <2>2
  <2> QED BY <1>4, <1>5, <2>3, CardRow
<1>7. \E j \in DOMAIN view.rows : view.rows[j] = CardFor(p)
  BY <1>3, <1>5 DEF Mirror, Carded, Shown
<1> QED BY <1>6, <1>7, SetOf

\* ... and no request in its lane but those of calls of the chat.
LEMMA LaneMirrored ==
  ASSUME TypesRight, Mirror(view, chat, {}, Permission)
  PROVE  RequestsMirrored
<1>1. SUFFICES ASSUME NEW r \in ToSet(Lane(view.rows))
               PROVE  \E t \in ToSet(HostTurns) : HasTool(t, r.tool)
  BY DEF RequestsMirrored
<1>2. view.rows \in Seq(RowT)
  BY DEF TypesRight, WindowT, ViewT
<1>3. PICK i \in DOMAIN view.rows : r = view.rows[i] /\ r.kind = "approval"
  BY <1>1, <1>2, LaneRows
<1>4. r.tool \in Calls(view.rows)
  BY <1>3 DEF Calls, IsCard
<1>5. PICK p \in Tools(chat) : p.tool = r.tool
  BY <1>4 DEF Mirror, Carded, Known
<1>6. PICK t \in TurnSet(chat) : \E j \in DOMAIN t.parts : p = t.parts[j]
  BY DEF Tools
<1>7. HasTool(t, r.tool)
  BY <1>5, <1>6 DEF HasTool
<1> QED BY <1>6, <1>7, HostTurnsAre

\* The host, the messages, the screen, and what the window has seen.
SettledInv == ChatInv /\ MirrorInv
\* A window that waits for nothing and missed nothing shows what the host has: the
\* turn that works, every text once and under its turn, the cards, the requests;
\* and its screen shows its rows (AHPProjectionService, emitTypedAction,
\* ChatSessionService).
THEOREM ChatMirrors == SpecChat => []Mirrors
<1>1. InitChat => SettledInv
  BY InitHost, InitScreen, InitText, InitMirror DEF ChatInv, SettledInv
<1>2. SettledInv /\ [NextChat]_varsChat => SettledInv'
  BY NextHost, NextScreen, NextText, NextMirror DEF ChatInv, SettledInv
<1>3. SettledInv => (Settled => /\ view.turn = active.id
                                /\ TextMirrored /\ CardsMirrored /\ RequestsMirrored)
  <2>1. SUFFICES ASSUME SettledInv, Settled
                 PROVE  view.turn = active.id /\ TextMirrored /\ CardsMirrored /\ RequestsMirrored
    OBVIOUS
  <2>2. TypesRight /\ Subscribing /\ MirrorInv
    BY <2>1 DEF SettledInv, ChatInv, HostInv, TextInv
  <2>3. Mirror(view, chat, {}, Permission)
    BY <2>1, <2>2, SettledSeen
  <2>4. view.turn = active.id
    BY <2>3 DEF Mirror, Working, active
  <2> QED BY <2>2, <2>3, <2>4, TextsMirrored, CallsMirrored, LaneMirrored
<1>4. SettledInv /\ ScreenShowsRows => Mirrors
  BY <1>3 DEF Mirrors
<1>5. SpecChat => []SettledInv
  BY <1>1, <1>2, PTL DEF SpecChat
<1> QED BY <1>4, <1>5, ScreenShowsItsRows, PTL
================================================================================
