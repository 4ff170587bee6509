--------------------------- MODULE Console_proofs ---------------------------
(***************************************************************************)
(* Proofs about Console, for all servers, server lists and bounds: type    *)
(* correctness, and that rows, actions and logs keep to the server they    *)
(* were read from; then how old a row on the screen may be, and what of    *)
(* the log is shown.                                                       *)
(***************************************************************************)
EXTENDS Console, TLAPS

\* What a tab shows of nodes, rows and logs stays, or is dropped from the screen.
SameRows(s, t) ==
    /\ t.nodes = s.nodes /\ t.node = s.node
    /\ t.cache = s.cache /\ t.fetch = s.fetch /\ t.acked = s.acked
    /\ t.prev \in {s.prev, None} /\ t.ask \in {s.ask, None} /\ t.log \in {s.log, None}
\* The chosen node is one of the cached list.
Chosen(s) == ~NoNodes(s) => s.node \in DOMAIN s.nodes

LEMMA MeAnswerType == MeAnswer \in Me
BY DEF MeAnswer, Me

LEMMA RefetchedSame ==
    ASSUME NEW s \in Tab, NEW answer \in Me
    PROVE  Refetched(s, answer) \in Tab /\ SameRows(s, Refetched(s, answer))
BY DEF Refetched, Tab, SameRows

LEMMA HomeSame ==
    ASSUME NEW s \in Tab
    PROVE  [s EXCEPT !.route = "home"] \in Tab /\ SameRows(s, [s EXCEPT !.route = "home"])
BY DEF Tab, SameRows

LEMMA SameTransitive ==
    ASSUME NEW s, NEW t, NEW r, SameRows(s, t), SameRows(t, r)
    PROVE  SameRows(s, r)
BY DEF SameRows

LEMMA ToLoginSame ==
    ASSUME NEW s \in Tab, NEW answer \in Me
    PROVE  ToLogin(s, answer) \in Tab /\ SameRows(s, ToLogin(s, answer))
<1> DEFINE t == [s EXCEPT !.route = "login", !.prev = None, !.ask = None, !.log = None]
<1>1. t \in Tab /\ SameRows(s, t)
  BY DEF Tab, Cached, SameRows
<1>2. ToLogin(s, answer) = Refetched(t, answer)
  BY DEF ToLogin
<1> HIDE DEF t
<1> QED BY <1>1, <1>2, RefetchedSame DEF SameRows

LEMMA RenderedSame ==
    ASSUME NEW s \in Tab, NEW answer \in Me
    PROVE  Rendered(s, answer) \in Tab /\ SameRows(s, Rendered(s, answer))
<1> DEFINE t == [s EXCEPT !.route = "home"]
<1>1. t \in Tab /\ SameRows(s, t)
  BY DEF Tab, SameRows
<1>2. Rendered(s, answer) \in {s, ToLogin(s, answer), Refetched(t, answer)}
  BY DEF Rendered
<1>3. SameRows(s, s)
  BY DEF SameRows
<1> HIDE DEF t
<1> QED BY <1>1, <1>2, <1>3, RefetchedSame, ToLoginSame DEF SameRows

LEMMA MeAppliedSame ==
    ASSUME NEW s \in Tab, NEW answer \in Me \cup {None}, NEW now \in Me
    PROVE  MeApplied(s, answer, now) \in Tab /\ SameRows(s, MeApplied(s, answer, now))
<1> DEFINE t == [s EXCEPT !.me = answer, !.mefetch = None, !.signing =
                    IF @ \in {"enter", "leave"} THEN "idle" ELSE @]
           home == [t EXCEPT !.route = "home"]
           next == IF s.signing = "leave" THEN ToLogin(t, now)
                   ELSE IF s.signing # "enter" THEN t
                   ELSE IF Settled(home) THEN Refetched(home, now) ELSE home
<1>1. t \in Tab /\ SameRows(s, t)
  BY DEF Tab, SameRows
<1>2. home \in Tab /\ SameRows(s, home)
  <2> HIDE DEF t
  <2> QED BY <1>1, HomeSame, SameTransitive
<1>3. MeApplied(s, answer, now) = Rendered(next, now)
  BY DEF MeApplied
<1>4. next \in {ToLogin(t, now), t, Refetched(home, now), home}
  OBVIOUS
<1> HIDE DEF t, home, next
<1>5. next \in Tab /\ SameRows(s, next)
  <2>1. ToLogin(t, now) \in Tab /\ SameRows(s, ToLogin(t, now))
    BY <1>1, ToLoginSame, SameTransitive
  <2>2. Refetched(home, now) \in Tab /\ SameRows(s, Refetched(home, now))
    BY <1>2, RefetchedSame, SameTransitive
  <2> QED BY <1>1, <1>2, <1>4, <2>1, <2>2
<1> QED BY <1>3, <1>5, RenderedSame DEF SameRows

LEMMA InvalidatedSame ==
    ASSUME NEW s \in Tab, NEW answer \in Me
    PROVE  MeInvalidated(s, answer) \in Tab /\ SameRows(s, MeInvalidated(s, answer))
BY DEF MeInvalidated, Tab, SameRows

\* A page load.
LEMMA FreshTyped ==
    ASSUME NEW route \in {"login", "home", "list"}, NEW n \in Numbers, NEW answer \in Me
    PROVE  Fresh(route, n, answer) \in Tab /\ Chosen(Fresh(route, n, answer))
BY DEF Fresh, Tab, Nothing, Cached, Chosen, NoNodes

LEMMA RowsTyped ==
    ASSUME NEW s \in Tab
    PROVE  Rows(s) \in Cached
BY DEF Rows, Tab

LEMMA NodeSetTyped ==
    ASSUME NEW s \in Tab, NEW n \in Numbers
    PROVE  /\ NodeSet(s, n) \in Tab /\ Chosen(NodeSet(s, n))
           /\ NodeSet(s, n).cache = s.cache /\ NodeSet(s, n).fetch = s.fetch
           /\ NodeSet(s, n).acked = s.acked /\ NodeSet(s, n).ask = s.ask
           /\ NodeSet(s, n).log = s.log /\ NodeSet(s, n).prev \in {Rows(s), None}
<1> DEFINE m == Clamped(s, n)
           p == IF view = "jobs" /\ s.route = "list" /\ s.cache[m] = None
                THEN Rows(s) ELSE None
<1>1. m \in Numbers /\ (~NoNodes(s) => m \in DOMAIN s.nodes)
  <2>1. NoNodes(s) \/ s.nodes \in Seq(Servers)
    BY ServerAssumption DEF NoNodes, Tab
  <2>2. NoNodes(s) \/ s.nodes # << >>
    BY DEF NoNodes
  <2>3. m \in Numbers
    BY DEF Clamped, Numbers
  <2>4. ASSUME ~NoNodes(s) PROVE m \in DOMAIN s.nodes
    <3>1. s.nodes \in Seq(Servers) /\ s.nodes # << >>
      BY <2>1, <2>2, <2>4
    <3>2. Len(s.nodes) \in Nat /\ Len(s.nodes) >= 1 /\ DOMAIN s.nodes = 1 .. Len(s.nodes)
      BY <3>1
    <3>3. m = (IF n <= Len(s.nodes) THEN n ELSE 1)
      BY <2>4 DEF Clamped
    <3> QED BY <3>2, <3>3 DEF Numbers
  <2> QED BY <2>3, <2>4
<1>2. p \in Cached /\ p \in {Rows(s), None}
  BY RowsTyped DEF Cached
<1>3. NodeSet(s, n) = [s EXCEPT !.node = m, !.prev = p]
  BY DEF NodeSet
<1> HIDE DEF m, p
<1> QED BY <1>1, <1>2, <1>3 DEF Tab, Chosen, NoNodes
-----------------------------------------------------------------------------
\* What the world shows.

LEMMA OnceCounts ==
    ASSUME TypeOK, NEW thing \in Counted, Once(thing)
    PROVE  /\ counts' \in Counts /\ counts'[thing] = counts[thing] + 1
           /\ \A other \in Counted \ {thing} : counts'[other] = counts[other]
BY DEF TypeOK, Once, Counts

LEMMA SubjectOfList ==
    ASSUME TypeOK, NEW n \in DOMAIN list
    PROVE  Subject(n) \in Subjects /\ Subject(n) = (IF view = "tasks" THEN App ELSE list[n])
           /\ list[n] \in Servers
<1>1. list \in Seq(Servers)
  BY ServerAssumption DEF TypeOK
<1>2. list[n] \in Servers
  BY <1>1
<1> QED BY <1>2 DEF Subject, Subjects

LEMMA RowsNowTyped ==
    ASSUME TypeOK, NEW n \in Numbers
    PROVE  RowsNow(n) \in Cached \ {None}
<1>1. CASE n \notin DOMAIN list
  BY <1>1, RowAssumption DEF RowsNow, Cached
<1>2. CASE n \in DOMAIN list
  <2>1. work[Subject(n)] \in JobStates \cup TaskStates
    BY <1>2, SubjectOfList DEF TypeOK
  <2>2. counts.edits \in Nat /\ counts.handled \in Nat
    BY DEF TypeOK, Counts, Counted
  <2>3. RowsNow(n) \in Row
    BY <1>2, <2>1, <2>2, SubjectOfList DEF RowsNow, Row
  <2> QED BY <2>3, RowAssumption DEF Cached
<1> QED BY <1>1, <1>2

LEMMA LogTextTyped == LogText \in {None, "part", "whole", "other"}
BY DEF LogText

LEMMA SameRowsTyped ==
    ASSUME NEW s \in Tab, NEW t \in Tab, Chosen(s), SameRows(s, t)
    PROVE  Chosen(t)
BY DEF Chosen, SameRows, NoNodes

LEMMA TypeOf ==
    ASSUME TypeOK
    PROVE  tab \in Tab /\ Chosen(tab) /\ act \in Act \cup {NoAct} /\ tab.node \in Numbers
BY DEF TypeOK, Chosen, Tab

\* The types of what a step changes.
LEMMA RedirectTyped ==
    ASSUME TypeOK, Redirect
    PROVE  tab' \in Tab /\ Chosen(tab)' /\ act' \in Act \cup {NoAct}
<1>1. tab' \in Tab /\ Chosen(tab')
  BY FreshTyped, MeAnswerType, TypeOf DEF Redirect
<1>2. act.pc = "sent" => [act EXCEPT !.pc = "adrift"] \in Act
  BY TypeOf DEF Act, NoAct
<1>3. act' \in Act \cup {NoAct}
  BY <1>2, TypeOf DEF Redirect
<1> QED BY <1>1, <1>3 DEF Chosen, NoNodes

\* A step that touches neither the rows on the screen nor what they are about.
Quiet ==
    /\ SameRows(tab, tab') /\ UNCHANGED <<setting, list, work, act>>
    /\ counts'.edits = counts.edits /\ counts'.handled = counts.handled

LEMMA SessionTyped ==
    ASSUME TypeOK, Session
    PROVE  TypeOK' /\ Quiet
<1> USE TypeOf DEF TypeOK
<1>0. MeAnswer \in Me /\ "in" \in Me /\ "out" \in Me
  BY MeAnswerType DEF Me
<1>1. ASSUME NEW answer \in Me \cup {None}, tab' = MeApplied(tab, answer, MeAnswer)
      PROVE  tab' \in Tab /\ Chosen(tab') /\ SameRows(tab, tab')
  BY <1>0, <1>1, MeAppliedSame, SameRowsTyped
<1>2. ASSUME NEW t \in Tab, SameRows(tab, t), tab' = t
      PROVE  tab' \in Tab /\ Chosen(tab') /\ SameRows(tab, tab')
  BY <1>2, SameRowsTyped
<1>3. ASSUME tab' \in Tab, Chosen(tab'), SameRows(tab, tab'),
             UNCHANGED <<setting, list, work, act>>,
             account' \in BOOLEAN, cookie' \in BOOLEAN, counts' \in Counts,
             counts'.edits = counts.edits, counts'.handled = counts.handled
      PROVE  TypeOK' /\ Quiet
  BY <1>3 DEF setting, Chosen, NoNodes, Quiet
<1> HIDE DEF TypeOK
<1>4. account \in BOOLEAN /\ cookie \in BOOLEAN /\ counts \in Counts
  BY DEF TypeOK
<1>5. ASSUME NEW thing \in Counted \ {"edits", "handled"}, Once(thing)
      PROVE  /\ counts' \in Counts
             /\ counts'.edits = counts.edits /\ counts'.handled = counts.handled
  BY <1>5, OnceCounts DEF Counted
<1>6. CASE MeDeliver
  <2>1. tab.mefetch \in Me \cup {None}
    BY DEF Tab
  <2> QED BY <1>1, <1>3, <1>4, <1>6, <2>1 DEF MeDeliver, world, setting
<1>7. CASE MeFail
  <2>1. tab.me \in Me \cup {None}
    BY DEF Tab
  <2> QED BY <1>1, <1>3, <1>4, <1>5, <1>7, <2>1 DEF MeFail, world, setting, Counted
<1>8. CASE Submit
  <2>1. ASSUME NEW x \in {"setup", "login"}
        PROVE  [tab EXCEPT !.signing = x] \in Tab /\ SameRows(tab, [tab EXCEPT !.signing = x])
    BY DEF Tab, SameRows
  <2> QED BY <1>2, <1>3, <1>4, <1>5, <1>8, <2>1 DEF Submit, world, setting, Counted
<1>9. CASE Logout
  <2>1. [tab EXCEPT !.signing = "logout"] \in Tab
        /\ SameRows(tab, [tab EXCEPT !.signing = "logout"])
    BY DEF Tab, SameRows
  <2> QED BY <1>2, <1>3, <1>4, <1>5, <1>9, <2>1 DEF Logout, world, setting, Counted
<1>10. CASE SubmitAnswer
  <2>1. [tab EXCEPT !.signing = "idle"] \in Tab /\ SameRows(tab, [tab EXCEPT !.signing = "idle"])
    BY DEF Tab, SameRows
  <2>2. [tab EXCEPT !.signing = "enter"] \in Tab /\ SameRows(tab, [tab EXCEPT !.signing = "enter"])
    BY DEF Tab, SameRows
  <2>3. MeInvalidated([tab EXCEPT !.signing = "enter"], "in") \in Tab
        /\ SameRows(tab, MeInvalidated([tab EXCEPT !.signing = "enter"], "in"))
    BY <1>0, <2>2, InvalidatedSame, SameTransitive
  <2> QED BY <1>2, <1>3, <1>4, <1>10, <2>1, <2>3 DEF SubmitAnswer, setting
<1>11. CASE LogoutAnswer
  <2>1. [tab EXCEPT !.signing = "leave"] \in Tab /\ SameRows(tab, [tab EXCEPT !.signing = "leave"])
    BY DEF Tab, SameRows
  <2>2. MeInvalidated([tab EXCEPT !.signing = "leave"], "out") \in Tab
        /\ SameRows(tab, MeInvalidated([tab EXCEPT !.signing = "leave"], "out"))
    BY <1>0, <2>1, InvalidatedSame, SameTransitive
  <2> QED BY <1>2, <1>3, <1>4, <1>11, <2>2 DEF LogoutAnswer, setting
<1>12. CASE ElsewhereSession
  <2>1. SameRows(tab, tab)
    BY DEF SameRows
  <2> QED BY <1>3, <1>4, <1>5, <1>12, <2>1 DEF ElsewhereSession, setting, Counted
<1> QED BY <1>6, <1>7, <1>8, <1>9, <1>10, <1>11, <1>12 DEF Session

\* The rest of TypeOK once the types of the tab, the action and the counts are known.
LEMMA TypeKept ==
    ASSUME TypeOK, UNCHANGED <<setting, account, cookie>>,
           list' \in Lists, work' \in [Subjects -> JobStates \cup TaskStates],
           tab' \in Tab, Chosen(tab'), act' \in Act \cup {NoAct}, counts' \in Counts
    PROVE  TypeOK'
BY DEF TypeOK, setting, Chosen, NoNodes

LEMMA CountsTyped == TypeOK => counts \in Counts
BY DEF TypeOK

LEMMA NodeTyped ==
    ASSUME TypeOK, Node
    PROVE  TypeOK'
<1> USE TypeOf, CountsTyped
<1>1. list \in Lists /\ work \in [Subjects -> JobStates \cup TaskStates]
  BY DEF TypeOK
<1>2. ASSUME NEW n \in Numbers, setNode(n) PROVE TypeOK'
  BY <1>1, <1>2, NodeSetTyped, TypeKept DEF setNode, world, setting
<1>3. ASSUME NEW l \in Lists
      PROVE  NodesApplied(tab, l) \in Tab /\ Chosen(NodesApplied(tab, l))
  <2>1. [tab EXCEPT !.nodes = l] \in Tab /\ [tab EXCEPT !.nodes = l].node = tab.node
    BY DEF Tab
  <2> QED BY <2>1, NodeSetTyped DEF NodesApplied
<1>4. CASE NodesPoll
  <2>1. CASE tab' = NodesApplied(tab, list) /\ act' = act
    BY <1>1, <1>3, <1>4, <2>1, TypeKept DEF NodesPoll, world, setting
  <2>2. CASE Redirect
    BY <1>1, <1>4, <2>2, RedirectTyped, TypeKept DEF NodesPoll, world, setting, Chosen, NoNodes
  <2> QED BY <1>4, <2>1, <2>2 DEF NodesPoll
<1>5. CASE StatusPoll
  BY <1>1, <1>5, RedirectTyped, TypeKept DEF StatusPoll, world, setting, Chosen, NoNodes
<1>6. ASSUME NEW l \in Lists, EditServers(l) PROVE TypeOK'
  <2>1. counts' \in Counts
    BY <1>6, OnceCounts DEF EditServers, Counted
  <2>2. tab' \in Tab /\ Chosen(tab')
    BY <1>3, <1>6 DEF EditServers
  <2> QED BY <1>1, <1>6, <2>1, <2>2, TypeKept DEF EditServers, setting
<1> QED BY <1>2, <1>4, <1>5, <1>6 DEF Node

LEMMA RowsRead ==
    ASSUME TypeOK, NEW n \in Numbers
    PROVE  [tab EXCEPT !.fetch[n] = RowsNow(n)] \in Tab
BY TypeOf, RowsNowTyped DEF Tab

LEMMA SentTyped ==
    ASSUME TypeOK, NEW row \in Row, NEW verb \in Verbs, Sent(row, verb)
    PROVE  act' \in Act /\ counts' \in Counts
<1>1. NumberOf(row) \in Numbers
  BY TypeOf DEF NumberOf, Row
<1>2. act' \in Act
  BY <1>1 DEF Sent, Act
<1>3. counts' \in Counts
  BY OnceCounts DEF Sent, Counted
<1> QED BY <1>2, <1>3

LEMMA HandledTyped ==
    ASSUME NEW a \in Act, NEW hit \in Subjects, NEW edits \in Nat, NEW order \in Nat
    PROVE  [a EXCEPT !.pc = "handled", !.hit = hit, !.edits = edits, !.order = order] \in Act
BY DEF Act

LEMMA PageTyped ==
    ASSUME TypeOK, Page
    PROVE  TypeOK'
<1> USE TypeOf, CountsTyped
<1>1. list \in Lists /\ work \in [Subjects -> JobStates \cup TaskStates]
  BY DEF TypeOK
<1>2. CASE ListPoll
  <2>1. CASE tab' = [tab EXCEPT !.fetch[tab.node] = RowsNow(tab.node)] /\ act' = act
    <3>1. tab' \in Tab
      BY <2>1, RowsRead
    <3>2. Chosen(tab')
      BY <2>1 DEF Chosen, NoNodes, Tab
    <3> QED BY <1>1, <1>2, <2>1, <3>1, <3>2, TypeKept DEF ListPoll, world, setting
  <2>2. CASE Redirect
    BY <1>1, <1>2, <2>2, RedirectTyped, TypeKept DEF ListPoll, world, setting, Chosen, NoNodes
  <2> QED BY <1>2, <2>1, <2>2 DEF ListPoll
<1>3. CASE Confirm
  <2>1. tab' \in Tab /\ Chosen(tab')
    BY <1>3 DEF Confirm, Tab, Chosen, NoNodes
  <2>2. act' \in Act \cup {NoAct} /\ counts' \in Counts
    <3>1. tab.ask \in [row : Row, verb : Verbs]
      BY <1>3 DEF Confirm, Tab
    <3> QED BY <1>3, <3>1, SentTyped DEF Confirm
  <2> QED BY <1>1, <1>3, <2>1, <2>2, TypeKept DEF Confirm, world, setting
<1>4. CASE ActHandle
  <2>1. CASE Subject(act.number) = None
    BY <1>1, <1>4, <2>1, TypeKept DEF ActHandle, setting, Act, NoAct
  <2>2. CASE Subject(act.number) # None
    <3>1. act \in Act
      BY <1>4 DEF ActHandle, NoAct
    <3>2. act.number \in Numbers
      BY <3>1 DEF Act
    <3>3. Subject(act.number) \in Subjects
      <4>1. view = "tasks" \/ act.number \in DOMAIN list
        BY <2>2 DEF Subject
      <4> QED BY <4>1, SubjectOfList DEF Subject, Subjects
    <3>4. work' \in [Subjects -> JobStates \cup TaskStates]
      BY <1>1, <1>4, <2>2, <3>3 DEF ActHandle, After, JobStates, TaskStates
    <3>5. counts' \in Counts /\ counts.edits \in Nat /\ counts.handled \in Nat
      BY <1>4, <2>2 DEF ActHandle, Counts, Counted
    <3>6. act' \in Act \cup {NoAct}
      <4>0. counts.handled + 1 \in Nat
        BY <3>5
      <4>1. [act EXCEPT !.pc = "handled", !.hit = Subject(act.number),
                        !.edits = counts.edits, !.order = counts.handled + 1] \in Act
        BY Zenon, <3>1, <3>3, <3>5, <4>0, HandledTyped
      <4> QED BY <1>4, <2>2, <4>1 DEF ActHandle
    <3> QED BY <1>1, <1>4, <3>4, <3>5, <3>6, TypeKept DEF ActHandle, setting
  <2> QED BY <2>1, <2>2
<1>5. CASE ActAnswer
  <2> DEFINE t == IF act.pc = "handled" THEN ActInvalidated(tab) ELSE tab
  <2>1. t \in Tab /\ t.nodes = tab.nodes /\ t.node = tab.node
    BY RowsRead DEF ActInvalidated, Tab
  <2>2. tab' \in {t, [t EXCEPT !.acked[tab.node] = act.order]}
    BY <1>5 DEF ActAnswer
  <2>3. act.order \in Nat
    BY <1>5 DEF ActAnswer, Act, NoAct
  <2> HIDE DEF t
  <2>4. tab' \in Tab /\ Chosen(tab')
    <3>1. [t EXCEPT !.acked[tab.node] = act.order] \in Tab
      BY <2>1, <2>3 DEF Tab
    <3> QED BY <2>1, <2>2, <3>1 DEF Chosen, NoNodes, Tab
  <2> QED BY <1>1, <1>5, <2>4, TypeKept DEF ActAnswer, world, setting
<1>6. ASSUME NEW page \in {"home", "list"}, Go(page) PROVE TypeOK'
  <2>1. tab' \in Tab /\ Chosen(tab')
    BY <1>6 DEF Go, Tab, Cached, Chosen, NoNodes
  <2> QED BY <1>1, <1>6, <2>1, TypeKept DEF Go, world, setting
<1>7. ASSUME NEW n \in Numbers, FromDashboard(n) PROVE TypeOK'
  <2>1. [tab EXCEPT !.route = "list"] \in Tab
    BY DEF Tab
  <2> QED BY <1>1, <1>7, <2>1, NodeSetTyped, TypeKept DEF FromDashboard, world, setting
<1>8. ASSUME NEW n \in Numbers, ListApply(n) PROVE TypeOK'
  <2>1. tab' \in Tab /\ Chosen(tab')
    <3> DEFINE c == [tab.cache EXCEPT ![n] = tab.fetch[n]]
               f == [tab.fetch EXCEPT ![n] = None]
               p == IF n = tab.node THEN None ELSE tab.prev
    <3>1. c \in [Numbers -> Cached] /\ f \in [Numbers -> Cached] /\ p \in Cached
      BY DEF Tab, Cached
    <3>2. tab' = [tab EXCEPT !.cache = c, !.fetch = f, !.prev = p]
      BY <1>8 DEF ListApply, Tab
    <3> HIDE DEF c, f, p
    <3> QED BY <3>1, <3>2 DEF Tab, Chosen, NoNodes
  <2> QED BY <1>1, <1>8, <2>1, TypeKept DEF ListApply, world, setting
<1>9. ASSUME NEW verb \in Verbs, Click(verb) PROVE TypeOK'
  <2>1. tab' \in Tab /\ Chosen(tab')
    <3>1. CASE tab' = tab
      BY <3>1
    <3>2. CASE tab' = [tab EXCEPT !.ask = [row |-> Rows(tab), verb |-> verb]]
      <4>1. Rows(tab) \in Row
        BY <1>9 DEF Click
      <4> QED BY <3>2, <4>1 DEF Tab, Chosen, NoNodes
    <3> QED BY <1>9, <3>1, <3>2 DEF Click
  <2>2. act' \in Act \cup {NoAct} /\ counts' \in Counts
    BY <1>9, SentTyped DEF Click
  <2> QED BY <1>1, <1>9, <2>1, <2>2, TypeKept DEF Click, world, setting
<1>10. ASSUME NEW s \in Subjects, WorkEnds(s) PROVE TypeOK'
  <2>1. counts' \in Counts
    BY <1>10, OnceCounts DEF WorkEnds, Counted
  <2>2. work' \in [Subjects -> JobStates \cup TaskStates]
    BY <1>1, <1>10 DEF WorkEnds, JobStates, TaskStates
  <2> QED BY <1>1, <1>10, <2>1, <2>2, TypeKept DEF WorkEnds, setting
<1> QED BY <1>2, <1>3, <1>4, <1>5, <1>6, <1>7, <1>8, <1>9, <1>10 DEF Page

LEMMA LogPageTyped ==
    ASSUME TypeOK, LogPage
    PROVE  TypeOK'
<1> USE TypeOf, CountsTyped
<1>1. list \in Lists /\ work \in [Subjects -> JobStates \cup TaskStates]
  BY DEF TypeOK
<1>2. counts.edits \in Nat
  BY DEF Counts, Counted
<1>3. CASE OpenLog
  <2>1. tab' \in Tab /\ Chosen(tab')
    <3> DEFINE row == Rows(tab)
               log == [number |-> tab.node, known |-> Known(row.state),
                       own |-> row.number = tab.node, edits |-> row.edits, text |-> None]
    <3>1. log \in Log
      BY <1>3 DEF OpenLog, Log, Row, Known
    <3>2. tab' = [tab EXCEPT !.route = "log", !.prev = None, !.ask = None, !.log = log]
      BY <1>3 DEF OpenLog
    <3> HIDE DEF log
    <3> QED BY <3>1, <3>2 DEF Tab, Cached, Chosen, NoNodes
  <2> QED BY <1>1, <1>3, <2>1, TypeKept DEF OpenLog, world, setting
<1>4. CASE LogPoll
  <2>1. CASE tab' = [tab EXCEPT !.log.text = LogText] /\ act' = act
    <3>1. tab' \in Tab /\ Chosen(tab')
      BY <1>4, <2>1, LogTextTyped DEF LogPoll, Tab, Log, Chosen, NoNodes
    <3> QED BY <1>1, <1>4, <2>1, <3>1, TypeKept DEF LogPoll, world, setting
  <2>2. CASE Redirect
    BY <1>1, <1>4, <2>2, RedirectTyped, TypeKept DEF LogPoll, world, setting, Chosen, NoNodes
  <2> QED BY <1>4, <2>1, <2>2 DEF LogPoll
<1>5. ASSUME NEW n \in Numbers, OpenRecent(n) PROVE TypeOK'
  <2> DEFINE log == [number |-> n, known |-> Known(work[list[n]]), own |-> TRUE,
                     edits |-> counts.edits, text |-> None]
             t == [tab EXCEPT !.route = "log", !.log = log]
  <2>1. log \in Log
    BY <1>2 DEF Log, Known
  <2> HIDE DEF log
  <2>2. t \in Tab
    BY <2>1 DEF Tab
  <2>3. tab' = NodeSet(t, n) /\ UNCHANGED <<world, act, counts>>
    BY <1>5 DEF OpenRecent, log
  <2> HIDE DEF t
  <2> QED BY <1>1, <2>2, <2>3, NodeSetTyped, TypeKept DEF world, setting
<1> QED BY <1>3, <1>4, <1>5 DEF LogPage
-----------------------------------------------------------------------------
\* The tab, the action and the world keep their types, and the chosen node is always one of
\* the list the tab knows (Clamped, the effect of NodeProvider).
THEOREM TypeCorrect == Spec => []TypeOK
<1>1. Init => TypeOK
  <2> SUFFICES ASSUME Init PROVE TypeOK
    OBVIOUS
  <2>1. tab \in Tab /\ Chosen(tab)
    BY FreshTyped, MeAnswerType DEF Init, Numbers
  <2>2. view \in {"jobs", "tasks"} /\ limits \in [Counted -> Nat] /\ counts \in Counts
    BY ScenarioAssumption DEF Init, Counts
  <2>3. work \in [Subjects -> JobStates \cup TaskStates]
    BY DEF Init, JobStates, TaskStates
  <2> QED BY <2>1, <2>2, <2>3 DEF Init, TypeOK, Chosen, NoAct
<1>2. TypeOK /\ [Next]_vars => TypeOK'
  <2>1. ASSUME TypeOK, Next PROVE TypeOK'
    BY <2>1, SessionTyped, NodeTyped, PageTyped, LogPageTyped DEF Next
  <2>2. ASSUME TypeOK, UNCHANGED vars PROVE TypeOK'
    BY <2>2 DEF vars, setting, TypeOK, NoNodes
  <2> QED BY <2>1, <2>2
<1> QED BY <1>1, <1>2, PTL DEF Spec
-----------------------------------------------------------------------------
(* Rows and answers: actions hit the server of their row, no answer read      *)
(* before an acknowledged action comes back, and a log that is no longer      *)
(* polled is whole.                                                           *)

\* A row that was read is as old as it says, and tells the truth about the list and the
\* work as long as nobody has edited the list.
ReadIn(x, page, count, servers, state) ==
    x \in Row =>
        /\ x.edits <= count.edits /\ x.handled <= count.handled
        /\ page = "tasks" => x.source = App
        /\ page = "jobs" => x.state \in JobStates
        /\ page = "jobs" /\ x.edits = count.edits =>
               /\ x.number \in DOMAIN servers /\ x.source = servers[x.number]
               /\ x.state = "finished" => state[x.source] = "finished"
Read(x) == ReadIn(x, view, counts, list, work)
\* The node of a row on the screen has an answer in the cache.
KeptIn(x, cache) == x \in Row => cache[x.number] # None
Kept(x) == KeptIn(x, tab.cache)

CacheHolds ==
    \A n \in Numbers :
        /\ Read(tab.cache[n]) /\ (tab.cache[n] \in Row => tab.cache[n].number = n)
        /\ Read(tab.fetch[n]) /\ (tab.fetch[n] \in Row => tab.fetch[n].number = n)
        /\ tab.acked[n] <= counts.handled
        /\ tab.fetch[n] \in Row => tab.fetch[n].handled >= tab.acked[n]
ScreenHolds ==
    /\ Read(tab.prev) /\ Kept(tab.prev)
    /\ tab.ask # None =>
           Read(tab.ask.row) /\ Kept(tab.ask.row) /\ tab.ask.verb \in Offered(tab.ask.row)
ActHolds ==
    act # NoAct =>
        /\ Read(act.row) /\ act.verb \in Offered(act.row)
        /\ view = "jobs" => act.number = act.row.number
        /\ act.pc # "adrift" => Kept(act.row)
        /\ act.pc = "handled" => act.order <= counts.handled /\ ActsHitTheirRow
LogHolds ==
    tab.log # None /\ tab.log.known /\ tab.log.own =>
        /\ view = "jobs" /\ tab.log.text # "part" /\ tab.log.edits <= counts.edits
        /\ tab.log.edits = counts.edits => /\ tab.log.number \in DOMAIN list
                                          /\ work[list[tab.log.number]] = "finished"
WorkHolds == \A s \in Servers : work[s] \in JobStates
Inductive == CacheHolds /\ ScreenHolds /\ ActHolds /\ LogHolds /\ WorkHolds
-----------------------------------------------------------------------------
\* The world goes on: counts grow, a list is as it was or another edit, and in the jobs view
\* what has finished stays so.
Onward ==
    /\ view' = view
    /\ counts'.handled >= counts.handled
    /\ counts'.edits > counts.edits \/ (counts'.edits = counts.edits /\ list' = list)
    /\ view = "jobs" => \A s \in Servers : work[s] = "finished" => work'[s] = "finished"
CacheGrows == \A n \in Numbers : tab.cache[n] # None => tab'.cache[n] # None

LEMMA CountsNat ==
    ASSUME TypeOK
    PROVE  counts.edits \in Nat /\ counts.handled \in Nat
BY DEF TypeOK, Counts, Counted

LEMMA ReadStays ==
    ASSUME TypeOK, TypeOK', Onward, NEW x, Read(x)
    PROVE  ReadIn(x, view', counts', list', work')
<1> SUFFICES ASSUME x \in Row PROVE ReadIn(x, view', counts', list', work')
  BY DEF ReadIn
<1>1. x.edits \in Nat /\ x.handled \in Nat
  BY DEF Row
<1>2. counts.edits \in Nat /\ counts.handled \in Nat
  BY CountsNat
<1>3. counts'.edits \in Nat /\ counts'.handled \in Nat
  BY DEF TypeOK, Counts, Counted
<1>4. x.edits <= counts'.edits /\ x.handled <= counts'.handled
  BY <1>1, <1>2, <1>3 DEF Onward, Read, ReadIn
<1>5. (view' = "tasks" => x.source = App) /\ (view' = "jobs" => x.state \in JobStates)
  BY DEF Onward, Read, ReadIn
<1>6. ASSUME view' = "jobs", x.edits = counts'.edits
      PROVE  /\ x.number \in DOMAIN list' /\ x.source = list'[x.number]
             /\ x.state = "finished" => work'[x.source] = "finished"
  <2>1. x.edits = counts.edits /\ list' = list /\ view = "jobs"
    BY <1>1, <1>2, <1>3, <1>6 DEF Onward, Read, ReadIn
  <2>2. x.number \in DOMAIN list /\ x.source = list[x.number]
        /\ (x.state = "finished" => work[x.source] = "finished")
    BY <2>1 DEF Read, ReadIn
  <2>3. list[x.number] \in Servers
    BY <2>2, SubjectOfList
  <2> QED BY <2>1, <2>2, <2>3 DEF Onward
<1> QED BY <1>4, <1>5, <1>6 DEF ReadIn

LEMMA NoRowReads ==
    ASSUME NEW x \in {None, Failed}, NEW page, NEW count, NEW servers, NEW state, NEW cache
    PROVE  ReadIn(x, page, count, servers, state) /\ KeptIn(x, cache)
BY RowAssumption DEF ReadIn, KeptIn

LEMMA CacheKeeps ==
    ASSUME TypeOK, TypeOK', Onward, CacheHolds,
           tab'.cache = tab.cache, tab'.fetch = tab.fetch, tab'.acked = tab.acked
    PROVE  CacheHolds'
<1>1. \A n \in Numbers : /\ ReadIn(tab'.cache[n], view', counts', list', work')
                         /\ ReadIn(tab'.fetch[n], view', counts', list', work')
  BY ReadStays DEF CacheHolds
<1>2. \A n \in Numbers : tab'.acked[n] <= counts'.handled
  <2>1. \A n \in Numbers : tab.acked[n] \in Nat
    BY TypeOf DEF Tab
  <2>2. counts'.handled \in Nat
    BY DEF TypeOK, Counts, Counted
  <2> QED BY <2>1, <2>2, CountsNat DEF CacheHolds, Onward
<1> QED BY <1>1, <1>2 DEF CacheHolds, Read

LEMMA KeptStays ==
    ASSUME CacheGrows, NEW x, Kept(x)
    PROVE  KeptIn(x, tab'.cache)
BY DEF CacheGrows, Kept, KeptIn, Row

LEMMA RowsKnown ==
    ASSUME TypeOK, CacheHolds, ScreenHolds
    PROVE  Read(Rows(tab)) /\ Kept(Rows(tab))
<1>1. CASE tab.cache[tab.node] # None
  <2>1. Rows(tab) = tab.cache[tab.node] /\ tab.node \in Numbers
    BY <1>1, TypeOf DEF Rows
  <2> QED BY <1>1, <2>1 DEF CacheHolds, Kept, KeptIn
<1>2. CASE tab.cache[tab.node] = None
  BY <1>2 DEF Rows, ScreenHolds
<1> QED BY <1>1, <1>2

LEMMA ScreenKeeps ==
    ASSUME TypeOK, TypeOK', Onward, CacheGrows, CacheHolds, ScreenHolds,
           tab'.prev \in {tab.prev, Rows(tab), None}, tab'.ask \in {tab.ask, None}
    PROVE  ScreenHolds'
<1>1. ReadIn(tab'.prev, view', counts', list', work') /\ KeptIn(tab'.prev, tab'.cache)
  <2>1. Read(tab.prev) /\ Kept(tab.prev)
    BY DEF ScreenHolds
  <2> QED BY <2>1, RowsKnown, ReadStays, KeptStays, NoRowReads
<1>2. ASSUME tab.ask # None, tab'.ask = tab.ask
      PROVE  /\ ReadIn(tab'.ask.row, view', counts', list', work')
             /\ KeptIn(tab'.ask.row, tab'.cache) /\ tab'.ask.verb \in Offered(tab'.ask.row)
  BY <1>2, ReadStays, KeptStays DEF ScreenHolds
<1> QED BY <1>1, <1>2 DEF ScreenHolds, Read, Kept

LEMMA ActKeeps ==
    ASSUME TypeOK, TypeOK', Onward, CacheGrows, ActHolds, act' = act
    PROVE  ActHolds'
<1> SUFFICES ASSUME act # NoAct PROVE ActHolds'
  BY DEF ActHolds
<1>1. /\ ReadIn(act.row, view', counts', list', work')
      /\ act.pc # "adrift" => KeptIn(act.row, tab'.cache)
  BY ReadStays, KeptStays DEF ActHolds
<1>2. act.pc = "handled" => act.order <= counts'.handled
  <2>1. act.order \in Nat
    BY TypeOf DEF Act
  <2>2. counts'.handled \in Nat
    BY DEF TypeOK, Counts, Counted
  <2> QED BY <2>1, <2>2, CountsNat DEF ActHolds, Onward
<1> QED BY <1>1, <1>2 DEF ActHolds, Onward, Read, Kept, ActsHitTheirRow

LEMMA LogKeeps ==
    ASSUME TypeOK, TypeOK', Onward, LogHolds, tab'.log \in {tab.log, None}
    PROVE  LogHolds'
<1> SUFFICES ASSUME tab'.log = tab.log, tab.log # None, tab.log.known, tab.log.own
             PROVE  LogHolds'
  BY DEF LogHolds
<1>1. view = "jobs" /\ tab.log.text # "part" /\ tab.log.edits <= counts.edits
      /\ (tab.log.edits = counts.edits => /\ tab.log.number \in DOMAIN list
                                         /\ work[list[tab.log.number]] = "finished")
  BY DEF LogHolds
<1>2. tab.log.edits \in Nat /\ counts.edits \in Nat /\ counts'.edits \in Nat
  BY TypeOf, CountsNat DEF Tab, Log, TypeOK, Counts, Counted
<1>3. tab.log.edits <= counts'.edits
  BY <1>1, <1>2 DEF Onward
<1>4. ASSUME tab.log.edits = counts'.edits
      PROVE  tab.log.number \in DOMAIN list' /\ work'[list'[tab.log.number]] = "finished"
  <2>1. tab.log.edits = counts.edits /\ list' = list
    BY <1>1, <1>2, <1>4 DEF Onward
  <2>2. list[tab.log.number] \in Servers
    BY <1>1, <2>1, SubjectOfList
  <2> QED BY <1>1, <2>1, <2>2 DEF Onward
<1> QED BY <1>1, <1>3, <1>4 DEF LogHolds, Onward
-----------------------------------------------------------------------------
\* The steps, one group after the other.

LEMMA Unmoved ==
    ASSUME TypeOK, UNCHANGED <<view, list, work>>,
           counts'.edits = counts.edits, counts'.handled = counts.handled
    PROVE  Onward
BY CountsNat DEF Onward

LEMMA QuietHolds ==
    ASSUME TypeOK, TypeOK', Inductive, Quiet
    PROVE  Inductive'
<1>1. Onward
  BY Unmoved DEF Quiet, setting
<1>2. CacheHolds' /\ CacheGrows
  BY <1>1, CacheKeeps DEF Inductive, Quiet, SameRows, CacheGrows
<1>3. ScreenHolds' /\ LogHolds' /\ ActHolds'
  BY <1>1, <1>2, ScreenKeeps, LogKeeps, ActKeeps DEF Inductive, Quiet, SameRows
<1>4. WorkHolds'
  BY DEF Inductive, WorkHolds, Quiet
<1> QED BY <1>2, <1>3, <1>4 DEF Inductive

LEMMA RedirectHolds ==
    ASSUME TypeOK, TypeOK', Inductive, Redirect, UNCHANGED <<world, counts>>
    PROVE  Inductive'
<1>1. Onward
  BY Unmoved DEF world, setting
<1>2. CacheHolds' /\ ScreenHolds' /\ LogHolds'
  <2>1. /\ tab'.prev = None /\ tab'.ask = None /\ tab'.log = None
        /\ \A n \in Numbers : tab'.cache[n] = None /\ tab'.fetch[n] = None /\ tab'.acked[n] = 0
    BY DEF Redirect, Fresh, Nothing
  <2>2. counts'.handled >= 0
    BY CountsNat DEF world
  <2> QED BY <2>1, <2>2, NoRowReads, RowAssumption
          DEF CacheHolds, ScreenHolds, LogHolds, Read, Kept
<1>3. ActHolds'
  <2>1. CASE act' = NoAct
    BY <2>1 DEF ActHolds
  <2>2. CASE act' # NoAct
    <3>1. act \in Act /\ act'.pc = "adrift" /\ act'.row = act.row /\ act'.verb = act.verb
          /\ act'.number = act.number
      BY <2>2, TypeOf DEF Redirect, Act, NoAct
    <3>2. act # NoAct
      BY <3>1 DEF Act, NoAct
    <3>3. ReadIn(act.row, view', counts', list', work')
      BY <1>1, <3>2, ReadStays DEF Inductive, ActHolds
    <3> QED BY <3>1, <3>2, <3>3 DEF Inductive, ActHolds, Read, world, setting
  <2> QED BY <2>1, <2>2
<1>4. WorkHolds'
  BY DEF Inductive, WorkHolds, world
<1> QED BY <1>2, <1>3, <1>4 DEF Inductive

\* The node changes, from a tab s that shows the same rows.
LEMMA NodeSetHolds ==
    ASSUME TypeOK, TypeOK', Inductive, Onward, NEW s \in Tab, NEW n \in Numbers,
           s.cache = tab.cache, s.fetch = tab.fetch, s.acked = tab.acked, s.ask = tab.ask,
           s.prev = tab.prev, s.node = tab.node, tab' = NodeSet(s, n), act' = act
    PROVE  CacheHolds' /\ ScreenHolds' /\ ActHolds' /\ tab'.log = s.log
<1>1. Rows(s) = Rows(tab)
  BY DEF Rows
<1>2. /\ tab'.cache = tab.cache /\ tab'.fetch = tab.fetch /\ tab'.acked = tab.acked
      /\ tab'.ask = tab.ask /\ tab'.log = s.log /\ tab'.prev \in {Rows(tab), None}
  BY <1>1, NodeSetTyped
<1>3. CacheHolds' /\ CacheGrows
  BY <1>2, CacheKeeps DEF Inductive, CacheGrows
<1>4. ScreenHolds' /\ ActHolds'
  BY <1>2, <1>3, ScreenKeeps, ActKeeps DEF Inductive
<1> QED BY <1>2, <1>3, <1>4

LEMMA NodesAppliedHolds ==
    ASSUME TypeOK, TypeOK', Inductive, Onward, NEW l \in Lists,
           tab' = NodesApplied(tab, l), act' = act
    PROVE  CacheHolds' /\ ScreenHolds' /\ ActHolds' /\ LogHolds'
<1> DEFINE s == [tab EXCEPT !.nodes = l]
<1>1. /\ s \in Tab /\ s.cache = tab.cache /\ s.fetch = tab.fetch /\ s.acked = tab.acked
      /\ s.ask = tab.ask /\ s.prev = tab.prev /\ s.node = tab.node /\ s.log = tab.log
  BY TypeOf DEF Tab
<1>2. tab' = NodeSet(s, s.node)
  BY DEF NodesApplied
<1> HIDE DEF s
<1>3. CacheHolds' /\ ScreenHolds' /\ ActHolds' /\ tab'.log = tab.log
  BY <1>1, <1>2, TypeOf, NodeSetHolds
<1> QED BY <1>3, LogKeeps DEF Inductive

LEMMA NodeHolds ==
    ASSUME TypeOK, TypeOK', Inductive, Node
    PROVE  Inductive'
<1>1. ASSUME UNCHANGED <<world, counts>> PROVE Onward /\ WorkHolds'
  BY <1>1, Unmoved DEF world, setting, Inductive, WorkHolds
<1>2. ASSUME NEW n \in Numbers, setNode(n) PROVE Inductive'
  <2>1. CacheHolds' /\ ScreenHolds' /\ ActHolds' /\ tab'.log = tab.log
    BY <1>1, <1>2, TypeOf, NodeSetHolds DEF setNode
  <2> QED BY <1>1, <1>2, <2>1, LogKeeps DEF Inductive, setNode
<1>3. CASE NodesPoll
  <2>1. CASE tab' = NodesApplied(tab, list) /\ act' = act
    <3>1. list \in Lists
      BY DEF TypeOK
    <3> QED BY <1>1, <1>3, <2>1, <3>1, NodesAppliedHolds DEF Inductive, NodesPoll
  <2>2. CASE Redirect
    BY <1>3, <2>2, RedirectHolds DEF NodesPoll
  <2> QED BY <1>3, <2>1, <2>2 DEF NodesPoll
<1>4. CASE StatusPoll
  BY <1>4, RedirectHolds DEF StatusPoll
<1>5. ASSUME NEW l \in Lists, EditServers(l) PROVE Inductive'
  <2>1. counts'.edits = counts.edits + 1 /\ counts'.handled = counts.handled
    BY <1>5, OnceCounts DEF EditServers, Counted
  <2>2. Onward /\ WorkHolds'
    BY <1>5, <2>1, CountsNat DEF EditServers, setting, Onward, Inductive, WorkHolds
  <2>3. CASE tab' = tab
    <3>1. CacheHolds' /\ CacheGrows
      BY <2>2, <2>3, CacheKeeps DEF Inductive, CacheGrows
    <3> QED BY <1>5, <2>2, <2>3, <3>1, ScreenKeeps, ActKeeps, LogKeeps
            DEF Inductive, EditServers
  <2>4. CASE tab' = NodesApplied(tab, l)
    BY <1>5, <2>2, <2>4, NodesAppliedHolds DEF Inductive, EditServers
  <2> QED BY <1>5, <2>3, <2>4 DEF EditServers
<1> QED BY <1>2, <1>3, <1>4, <1>5 DEF Node

\* A read sent now.
LEMMA RowsNowReads ==
    ASSUME TypeOK, WorkHolds, NEW n \in Numbers
    PROVE  /\ Read(RowsNow(n))
           /\ RowsNow(n) \in Row => RowsNow(n).number = n /\ RowsNow(n).handled = counts.handled
<1>1. CASE n \notin DOMAIN list
  BY <1>1, NoRowReads, RowAssumption DEF RowsNow, Read
<1>2. CASE n \in DOMAIN list
  <2>1. RowsNow(n) = [number |-> n, source |-> Subject(n), state |-> work[Subject(n)],
                      edits |-> counts.edits, handled |-> counts.handled]
    BY <1>2 DEF RowsNow
  <2>2. Subject(n) = (IF view = "tasks" THEN App ELSE list[n]) /\ list[n] \in Servers
    BY <1>2, SubjectOfList
  <2> QED BY <1>2, <2>1, <2>2, CountsNat DEF Read, ReadIn, WorkHolds
<1> QED BY <1>1, <1>2

\* A read of node n sent now takes the place of what was in flight for it.
LEMMA ReadSent ==
    ASSUME TypeOK, Inductive, NEW n \in Numbers, UNCHANGED <<view, list, work, counts>>,
           tab'.cache = tab.cache, tab'.acked = tab.acked,
           tab'.fetch = [tab.fetch EXCEPT ![n] = RowsNow(n)]
    PROVE  CacheHolds'
<1>1. \A m \in Numbers : tab'.fetch[m] = IF m = n THEN RowsNow(n) ELSE tab.fetch[m]
  BY TypeOf DEF Tab
<1>2. tab.acked[n] \in Nat
  BY TypeOf DEF Tab
<1>3. \A m \in Numbers : /\ Read(tab'.fetch[m]) /\ (tab'.fetch[m] \in Row => tab'.fetch[m].number = m)
                         /\ tab'.fetch[m] \in Row => tab'.fetch[m].handled >= tab.acked[m]
  BY <1>1, <1>2, CountsNat, RowsNowReads DEF Inductive, CacheHolds
<1> QED BY <1>3 DEF Inductive, CacheHolds, Read

LEMMA ListHolds ==
    ASSUME TypeOK, TypeOK', Inductive,
           ListPoll \/ (\E page \in {"home", "list"} : Go(page))
           \/ (\E n \in Numbers : FromDashboard(n) \/ ListApply(n))
    PROVE  Inductive'
<1>1. ASSUME UNCHANGED <<world, counts>> PROVE Onward /\ WorkHolds'
  BY <1>1, Unmoved DEF world, setting, Inductive, WorkHolds
<1>2. CASE ListPoll
  <2>1. CASE tab' = [tab EXCEPT !.fetch[tab.node] = RowsNow(tab.node)] /\ act' = act
    <3>1. /\ tab'.cache = tab.cache /\ tab'.acked = tab.acked /\ tab'.prev = tab.prev
          /\ tab'.ask = tab.ask /\ tab'.log = tab.log
          /\ tab'.fetch = [tab.fetch EXCEPT ![tab.node] = RowsNow(tab.node)]
      BY <2>1, TypeOf DEF Tab
    <3>2. CacheHolds' /\ CacheGrows
      BY <1>2, <3>1, TypeOf, ReadSent DEF ListPoll, world, setting, CacheGrows
    <3> QED BY <1>1, <1>2, <2>1, <3>1, <3>2, ScreenKeeps, ActKeeps, LogKeeps
            DEF Inductive, ListPoll
  <2>2. CASE Redirect
    BY <1>2, <2>2, RedirectHolds DEF ListPoll
  <2> QED BY <1>2, <2>1, <2>2 DEF ListPoll
<1>3. ASSUME NEW page \in {"home", "list"}, Go(page) PROVE Inductive'
  <2>1. Quiet
    BY <1>3, TypeOf DEF Go, Tab, SameRows, Quiet, world, setting
  <2> QED BY <2>1, QuietHolds
<1>4. ASSUME NEW n \in Numbers, FromDashboard(n) PROVE Inductive'
  <2> DEFINE s == [tab EXCEPT !.route = "list"]
  <2>1. /\ s \in Tab /\ s.cache = tab.cache /\ s.fetch = tab.fetch /\ s.acked = tab.acked
        /\ s.ask = tab.ask /\ s.prev = tab.prev /\ s.node = tab.node /\ s.log = tab.log
    BY TypeOf DEF Tab
  <2>2. tab' = NodeSet(s, n) /\ UNCHANGED <<world, act, counts>>
    BY <1>4 DEF FromDashboard
  <2> HIDE DEF s
  <2>3. CacheHolds' /\ ScreenHolds' /\ ActHolds' /\ tab'.log = tab.log
    BY <1>1, <2>1, <2>2, NodeSetHolds
  <2> QED BY <1>1, <2>2, <2>3, LogKeeps DEF Inductive
<1>5. ASSUME NEW n \in Numbers, ListApply(n) PROVE Inductive'
  <2>1. Onward /\ WorkHolds' /\ act' = act
    BY <1>1, <1>5 DEF ListApply
  <2>2. /\ tab'.cache = [tab.cache EXCEPT ![n] = tab.fetch[n]]
        /\ tab'.fetch = [tab.fetch EXCEPT ![n] = None]
        /\ tab'.acked = tab.acked /\ tab'.prev \in {tab.prev, None}
        /\ tab'.ask = tab.ask /\ tab'.log = tab.log
    BY <1>5, TypeOf DEF ListApply, Tab
  <2>3. /\ \A m \in Numbers : /\ tab'.cache[m] = IF m = n THEN tab.fetch[n] ELSE tab.cache[m]
                              /\ tab'.fetch[m] = IF m = n THEN None ELSE tab.fetch[m]
        /\ tab.fetch[n] # None
    BY <1>5, <2>2, TypeOf DEF Tab, ListApply
  <2>4. CacheGrows
    BY <2>3 DEF CacheGrows
  <2>5. \A m \in Numbers :
           /\ ReadIn(tab'.cache[m], view', counts', list', work')
           /\ tab'.cache[m] \in Row => tab'.cache[m].number = m
           /\ ReadIn(tab'.fetch[m], view', counts', list', work')
           /\ tab'.fetch[m] \in Row => /\ tab'.fetch[m].number = m
                                       /\ tab'.fetch[m].handled >= tab.acked[m]
    BY <2>1, <2>3, ReadStays, NoRowReads, RowAssumption DEF Inductive, CacheHolds
  <2>6. counts' = counts
    BY <1>5 DEF ListApply
  <2>7. CacheHolds'
    BY <2>2, <2>5, <2>6 DEF Inductive, CacheHolds, Read
  <2> QED BY <2>1, <2>2, <2>4, <2>7, ScreenKeeps, ActKeeps, LogKeeps DEF Inductive
<1> QED BY <1>2, <1>3, <1>4, <1>5

\* An action is sent from a row of the screen or of a dialog.
LEMMA SentHolds ==
    ASSUME TypeOK, Inductive, NEW row \in Row, NEW verb, Read(row), Kept(row),
           verb \in Offered(row), Sent(row, verb), UNCHANGED world, tab'.cache = tab.cache
    PROVE  ActHolds' /\ counts'.edits = counts.edits /\ counts'.handled = counts.handled
<1>1. counts'.edits = counts.edits /\ counts'.handled = counts.handled
  BY OnceCounts DEF Sent, Counted
<1>2. act' = [pc |-> "sent", row |-> row, verb |-> verb, number |-> NumberOf(row),
              hit |-> None, edits |-> 0, order |-> 0]
  BY DEF Sent
<1>3. ReadIn(row, view', counts', list', work')
  BY <1>1 DEF Read, ReadIn, world, setting
<1>4. view' = "jobs" => act'.number = act'.row.number
  BY <1>2 DEF NumberOf, world, setting
<1> QED BY <1>1, <1>2, <1>3, <1>4 DEF ActHolds, Read, Kept

LEMMA ClickHolds ==
    ASSUME TypeOK, TypeOK', Inductive, (\E verb \in Verbs : Click(verb)) \/ Confirm
    PROVE  Inductive'
<1>1. UNCHANGED world /\ tab'.cache = tab.cache /\ tab'.fetch = tab.fetch
      /\ tab'.acked = tab.acked /\ tab'.prev = tab.prev /\ tab'.log = tab.log
  BY TypeOf DEF Click, Confirm, Tab
<1>2. ASSUME counts'.edits = counts.edits, counts'.handled = counts.handled
      PROVE  Onward /\ CacheHolds' /\ CacheGrows /\ LogHolds' /\ WorkHolds'
  <2>1. Onward /\ WorkHolds'
    BY <1>1, <1>2, Unmoved DEF world, setting, Inductive, WorkHolds
  <2> QED BY <1>1, <2>1, CacheKeeps, LogKeeps DEF Inductive, CacheGrows
<1>3. ASSUME NEW verb \in Verbs, Click(verb) PROVE Inductive'
  <2>1. Rows(tab) \in Row /\ verb \in Offered(Rows(tab)) /\ Read(Rows(tab)) /\ Kept(Rows(tab))
    BY <1>3, RowsKnown DEF Click, Inductive
  <2>2. CASE Sent(Rows(tab), verb) /\ tab' = tab
    <3>1. ActHolds' /\ counts'.edits = counts.edits /\ counts'.handled = counts.handled
      BY <1>1, <2>1, <2>2, SentHolds
    <3> QED BY <1>2, <2>2, <3>1, ScreenKeeps DEF Inductive
  <2>3. CASE tab' = [tab EXCEPT !.ask = [row |-> Rows(tab), verb |-> verb]]
             /\ UNCHANGED <<act, counts>>
    <3>1. tab'.ask = [row |-> Rows(tab), verb |-> verb]
      BY <2>3, TypeOf DEF Tab
    <3>2. Onward /\ CacheHolds' /\ CacheGrows /\ LogHolds' /\ WorkHolds'
      BY <1>2, <2>3
    <3>3. /\ ReadIn(Rows(tab), view', counts', list', work')
          /\ KeptIn(Rows(tab), tab'.cache)
          /\ ReadIn(tab'.prev, view', counts', list', work') /\ KeptIn(tab'.prev, tab'.cache)
      BY <1>1, <2>1, <3>2, ReadStays, KeptStays DEF Inductive, ScreenHolds
    <3>4. ScreenHolds'
      BY <2>1, <3>1, <3>3 DEF ScreenHolds, Read, Kept
    <3> QED BY <2>3, <3>2, <3>4, ActKeeps DEF Inductive
  <2> QED BY <1>3, <2>2, <2>3 DEF Click
<1>4. CASE Confirm
  <2>1. tab'.ask = None
    BY <1>4, TypeOf DEF Confirm, Tab
  <2>2. CASE Sent(tab.ask.row, tab.ask.verb)
    <3>1. tab.ask # None /\ tab.ask.row \in Row
      BY <1>4, TypeOf DEF Confirm, Tab
    <3>2. ActHolds' /\ counts'.edits = counts.edits /\ counts'.handled = counts.handled
      BY <1>1, <2>2, <3>1, SentHolds DEF Inductive, ScreenHolds
    <3> QED BY <1>1, <1>2, <2>1, <3>2, ScreenKeeps DEF Inductive
  <2>3. CASE UNCHANGED <<act, counts>>
    BY <1>1, <1>2, <2>1, <2>3, ScreenKeeps, ActKeeps DEF Inductive
  <2> QED BY <1>4, <2>2, <2>3 DEF Confirm
<1> QED BY <1>3, <1>4

\* The handler ran, and the row was read under the list of now or an older one.
LEMMA ActHandleHolds ==
    ASSUME TypeOK, TypeOK', Inductive, ActHandle
    PROVE  Inductive'
<1>1. act \in Act /\ act # NoAct /\ act.pc \in {"sent", "adrift"} /\ act.row \in Row
  BY TypeOf DEF ActHandle, Act, NoAct
<1>2. /\ Read(act.row) /\ act.verb \in Offered(act.row)
      /\ view = "jobs" => act.number = act.row.number
      /\ act.pc # "adrift" => Kept(act.row)
  BY <1>1 DEF Inductive, ActHolds
<1>3. tab' = tab /\ view' = view /\ list' = list /\ CacheGrows
  BY DEF ActHandle, setting, CacheGrows
<1>4. CASE Subject(act.number) = None
  <2>1. Onward /\ WorkHolds'
    BY <1>3, <1>4, Unmoved DEF ActHandle, Inductive, WorkHolds
  <2>2. CacheHolds' /\ ScreenHolds' /\ LogHolds'
    BY <1>3, <2>1, CacheKeeps, ScreenKeeps, LogKeeps DEF Inductive
  <2>3. ReadIn(act.row, view', counts', list', work')
    BY <1>2, <2>1, ReadStays
  <2>4. act' \in {[act EXCEPT !.pc = "failed"], NoAct} /\ (act' # NoAct => act.pc = "sent")
    BY <1>1, <1>4 DEF ActHandle
  <2>5. ActHolds'
    BY <1>1, <1>2, <1>3, <2>3, <2>4 DEF ActHolds, Read, Kept, Act
  <2> QED BY <2>1, <2>2, <2>5 DEF Inductive
<1>5. CASE Subject(act.number) # None
  <2> DEFINE target == Subject(act.number)
  <2>1. /\ work' = [work EXCEPT ![target] = After(act.verb, @)]
        /\ counts' = [counts EXCEPT !.handled = @ + 1]
        /\ act' = IF act.pc = "sent"
                  THEN [act EXCEPT !.pc = "handled", !.hit = target,
                                   !.edits = counts.edits, !.order = counts.handled + 1]
                  ELSE NoAct
    BY <1>5 DEF ActHandle
  <2>2. counts'.handled = counts.handled + 1 /\ counts'.edits = counts.edits
    BY <2>1, CountsTyped DEF Counts, Counted
  <2>3. work \in [Subjects -> JobStates \cup TaskStates]
    BY DEF TypeOK
  <2>4. view \in {"jobs", "tasks"}
    BY DEF TypeOK
  <2>5. Onward /\ WorkHolds'
    <3>1. CASE view = "tasks"
      <4>1. target = App
        BY <3>1 DEF Subject
      <4>2. \A s \in Servers : work'[s] = work[s]
        BY <2>1, <2>3, <4>1, ServerAssumption DEF Subjects
      <4> QED BY <1>3, <2>2, <3>1, <4>2, CountsNat DEF Onward, Inductive, WorkHolds
    <3>2. CASE view = "jobs"
      <4>1. act.verb \in {"stop", "start"}
        BY <1>1, <1>2, <3>2 DEF Read, ReadIn, Offered, JobStates
      <4>2. \A s \in Servers : work'[s] = work[s] \/ work'[s] = After(act.verb, work[s])
        BY <2>1, <2>3 DEF Subjects
      <4>3. \A x \in JobStates : /\ After(act.verb, x) \in JobStates
                                 /\ x = "finished" => After(act.verb, x) = "finished"
        BY <4>1 DEF After, JobStates
      <4>4. \A s \in Servers : /\ work'[s] \in JobStates
                               /\ work[s] = "finished" => work'[s] = "finished"
        BY <4>2, <4>3 DEF Inductive, WorkHolds
      <4> QED BY <1>3, <2>2, <4>4, CountsNat DEF Onward, WorkHolds
    <3> QED BY <2>4, <3>1, <3>2
  <2>6. CacheHolds' /\ ScreenHolds' /\ LogHolds'
    BY <1>3, <2>5, CacheKeeps, ScreenKeeps, LogKeeps DEF Inductive
  <2>7. ReadIn(act.row, view', counts', list', work')
    BY <1>2, <2>5, ReadStays
  <2>8. ASSUME act.row.edits = counts.edits PROVE target = act.row.source
    <3>1. CASE view = "tasks"
      BY <1>1, <1>2, <3>1 DEF Subject, Read, ReadIn
    <3>2. CASE view = "jobs"
      BY <1>1, <1>2, <2>8, <3>2 DEF Subject, Read, ReadIn
    <3> QED BY <2>4, <3>1, <3>2
  <2>9. ActHolds'
    <3>1. CASE act.pc # "sent"
      BY <2>1, <3>1 DEF ActHolds
    <3>2. CASE act.pc = "sent"
      <4>1. /\ act'.pc = "handled" /\ act'.row = act.row /\ act'.verb = act.verb
            /\ act'.number = act.number /\ act'.hit = target
            /\ act'.edits = counts.edits /\ act'.order = counts.handled + 1
        BY <1>1, <2>1, <3>2 DEF Act
      <4>2. counts'.handled \in Nat
        BY DEF TypeOK, Counts, Counted
      <4> HIDE DEF target
      <4> QED BY <1>2, <1>3, <2>2, <2>7, <2>8, <3>2, <4>1, <4>2
              DEF ActHolds, Read, Kept, ActsHitTheirRow
    <3> QED BY <3>1, <3>2
  <2> QED BY <2>5, <2>6, <2>9 DEF Inductive
<1> QED BY <1>4, <1>5

\* The answer is in, and the rows of the chosen node are read anew.
LEMMA ActAnswerHolds ==
    ASSUME TypeOK, TypeOK', Inductive, ActAnswer
    PROVE  Inductive'
<1> DEFINE told == act.pc = "handled" /\ Listing /\ cookie /\ act.row.number = tab.node
           t == IF act.pc = "handled" THEN ActInvalidated(tab) ELSE tab
<1>1. /\ UNCHANGED <<world, counts>> /\ act' = NoAct
      /\ tab' = IF told THEN [t EXCEPT !.acked[tab.node] = act.order] ELSE t
  BY DEF ActAnswer
<1>2. Onward /\ WorkHolds' /\ ActHolds'
  BY <1>1, Unmoved DEF world, setting, Inductive, WorkHolds, ActHolds
<1>3. /\ t \in {tab, [tab EXCEPT !.fetch[tab.node] = RowsNow(tab.node)]}
      /\ told => t = [tab EXCEPT !.fetch[tab.node] = RowsNow(tab.node)]
  <2>1. t \in {tab, [tab EXCEPT !.fetch[tab.node] = RowsNow(tab.node)]}
    BY DEF ActInvalidated
  <2>2. ASSUME told PROVE tab.cache[tab.node] # None
    <3>1. act # NoAct /\ act.row \in Row
      BY <2>2, TypeOf DEF Act, NoAct
    <3> QED BY <2>2, <3>1 DEF Inductive, ActHolds, Kept, KeptIn
  <2> QED BY <2>1, <2>2 DEF ActInvalidated, Listing
<1>4. /\ t \in Tab /\ t.cache = tab.cache /\ t.acked = tab.acked /\ t.prev = tab.prev
      /\ t.ask = tab.ask /\ t.log = tab.log
      /\ t.fetch \in {tab.fetch, [tab.fetch EXCEPT ![tab.node] = RowsNow(tab.node)]}
      /\ told => t.fetch = [tab.fetch EXCEPT ![tab.node] = RowsNow(tab.node)]
  <2>1. LET f == [tab EXCEPT !.fetch[tab.node] = RowsNow(tab.node)]
        IN  /\ f \in Tab /\ f.cache = tab.cache /\ f.acked = tab.acked /\ f.prev = tab.prev
            /\ f.ask = tab.ask /\ f.log = tab.log
            /\ f.fetch = [tab.fetch EXCEPT ![tab.node] = RowsNow(tab.node)]
    BY TypeOf, RowsRead DEF Tab
  <2> HIDE DEF t, told
  <2> QED BY <1>3, <2>1, TypeOf
<1>5. told => act.order \in Nat /\ act.order <= counts.handled
  BY TypeOf DEF Act, NoAct, Inductive, ActHolds
<1> HIDE DEF told, t
<1>6. /\ tab'.cache = tab.cache /\ tab'.prev = tab.prev /\ tab'.ask = tab.ask
      /\ tab'.log = tab.log /\ tab'.fetch = t.fetch
      /\ tab'.acked = IF told THEN [tab.acked EXCEPT ![tab.node] = act.order] ELSE tab.acked
  BY <1>1, <1>4 DEF Tab
<1>7. CacheHolds'
  <2>1. \A n \in Numbers :
           /\ Read(tab'.fetch[n]) /\ (tab'.fetch[n] \in Row => tab'.fetch[n].number = n)
           /\ tab'.fetch[n] \in Row => \/ tab'.fetch[n].handled >= tab.acked[n]
                                        \/ tab'.fetch[n].handled = counts.handled
           /\ told /\ n = tab.node /\ tab'.fetch[n] \in Row
                  => tab'.fetch[n].handled = counts.handled
    <3>1. \A n \in Numbers :
             /\ tab'.fetch[n] \in {tab.fetch[n], RowsNow(n)}
             /\ told /\ n = tab.node => tab'.fetch[n] = RowsNow(n)
      BY <1>4, <1>6, TypeOf DEF Tab
    <3> QED BY <3>1, RowsNowReads DEF Inductive, CacheHolds
  <2>2. \A n \in Numbers :
           /\ tab.acked[n] \in Nat /\ tab.acked[n] <= counts.handled
           /\ tab'.acked[n] = IF told /\ n = tab.node THEN act.order ELSE tab.acked[n]
    BY <1>6, TypeOf DEF Tab, Inductive, CacheHolds
  <2>3. \A n \in Numbers : /\ tab'.acked[n] <= counts.handled
                           /\ tab'.fetch[n] \in Row => tab'.fetch[n].handled >= tab'.acked[n]
    BY <1>5, <2>1, <2>2, CountsNat
  <2>4. \A n \in Numbers :
           Read(tab'.cache[n]) /\ (tab'.cache[n] \in Row => tab'.cache[n].number = n)
    BY <1>6 DEF Inductive, CacheHolds
  <2> QED BY <1>1, <2>1, <2>3, <2>4 DEF CacheHolds, Read, world, setting
<1>8. CacheGrows
  BY <1>6 DEF CacheGrows
<1> QED BY <1>2, <1>6, <1>7, <1>8, ScreenKeeps, LogKeeps DEF Inductive

LEMMA WorkEndsHolds ==
    ASSUME TypeOK, TypeOK', Inductive, NEW s \in Subjects, WorkEnds(s)
    PROVE  Inductive'
<1>1. /\ counts'.edits = counts.edits /\ counts'.handled = counts.handled
      /\ view' = view /\ list' = list /\ tab' = tab /\ act' = act
  BY OnceCounts DEF WorkEnds, Counted, setting
<1>2. \A x \in Servers : /\ work'[x] = work[x] \/ work'[x] = "finished"
                         /\ work'[x] \in JobStates
  <2>1. work \in [Subjects -> JobStates \cup TaskStates]
    BY DEF TypeOK
  <2> QED BY <2>1, ServerAssumption DEF WorkEnds, Subjects, Inductive, WorkHolds, JobStates
<1>3. Onward /\ WorkHolds' /\ CacheGrows
  BY <1>1, <1>2, CountsNat DEF Onward, WorkHolds, CacheGrows
<1> QED BY <1>1, <1>3, CacheKeeps, ScreenKeeps, ActKeeps, LogKeeps DEF Inductive

LEMMA PageHolds ==
    ASSUME TypeOK, TypeOK', Inductive, Page
    PROVE  Inductive'
BY ListHolds, ClickHolds, ActHandleHolds, ActAnswerHolds, WorkEndsHolds DEF Page

\* A log is opened from a row read under the list of now or an older one, and read.
LEMMA LogPageHolds ==
    ASSUME TypeOK, TypeOK', Inductive, LogPage
    PROVE  Inductive'
<1>1. ASSUME UNCHANGED <<world, counts>> PROVE Onward /\ WorkHolds'
  BY <1>1, Unmoved DEF world, setting, Inductive, WorkHolds
<1>2. CASE OpenLog
  <2> DEFINE row == Rows(tab)
             log == [number |-> tab.node, known |-> Known(row.state),
                     own |-> row.number = tab.node, edits |-> row.edits, text |-> None]
  <2>1. /\ tab' = [tab EXCEPT !.route = "log", !.prev = None, !.ask = None, !.log = log]
        /\ UNCHANGED <<world, act, counts>> /\ view = "jobs" /\ row \in Row
    BY <1>2 DEF OpenLog
  <2>2. /\ tab'.cache = tab.cache /\ tab'.fetch = tab.fetch /\ tab'.acked = tab.acked
        /\ tab'.prev = None /\ tab'.ask = None /\ tab'.log = log
    <3> HIDE DEF log
    <3> QED BY <2>1, TypeOf DEF Tab
  <2>3. Onward /\ WorkHolds'
    BY <1>1, <2>1
  <2>4. CacheHolds' /\ CacheGrows
    BY <2>2, <2>3, CacheKeeps DEF Inductive, CacheGrows
  <2>5. ScreenHolds' /\ ActHolds'
    BY <2>1, <2>2, <2>3, <2>4, ScreenKeeps, ActKeeps DEF Inductive
  <2>6. Read(row)
    BY RowsKnown DEF Inductive
  <2>7. LogHolds'
    <3>1. (log.known => row.state = "finished") /\ (log.own => row.number = tab.node)
          /\ log.number = tab.node /\ log.edits = row.edits /\ log.text # "part"
      BY RowAssumption DEF Known
    <3>2. UNCHANGED <<view, list, work, counts>>
      BY <2>1 DEF world, setting
    <3> HIDE DEF log, row
    <3> QED BY <2>1, <2>2, <2>6, <3>1, <3>2 DEF LogHolds, Read, ReadIn
  <2> QED BY <2>3, <2>4, <2>5, <2>7 DEF Inductive
<1>3. CASE LogPoll
  <2>1. CASE tab' = [tab EXCEPT !.log.text = LogText] /\ act' = act
    <3>1. tab.log \in Log /\ tab.log # None /\ UNCHANGED <<world, counts>>
      BY <1>3, TypeOf DEF LogPoll, Tab
    <3>2. /\ tab'.cache = tab.cache /\ tab'.fetch = tab.fetch /\ tab'.acked = tab.acked
          /\ tab'.prev = tab.prev /\ tab'.ask = tab.ask
          /\ tab'.log = [tab.log EXCEPT !.text = LogText]
      BY <2>1, TypeOf DEF Tab
    <3>3. Onward /\ WorkHolds'
      BY <1>1, <3>1
    <3>4. CacheHolds' /\ CacheGrows
      BY <3>2, <3>3, CacheKeeps DEF Inductive, CacheGrows
    <3>5. ScreenHolds' /\ ActHolds'
      BY <2>1, <3>2, <3>3, <3>4, ScreenKeeps, ActKeeps DEF Inductive
    <3>6. /\ tab'.log.number = tab.log.number /\ tab'.log.known = tab.log.known
          /\ tab'.log.own = tab.log.own /\ tab'.log.edits = tab.log.edits
          /\ tab'.log.text = LogText
      BY <3>1, <3>2 DEF Log
    <3>7. LogHolds'
      <4> SUFFICES ASSUME tab.log.known, tab.log.own PROVE LogHolds'
        BY <3>6 DEF LogHolds
      <4>1. view = "jobs" /\ tab.log.edits <= counts.edits
            /\ (tab.log.edits = counts.edits => /\ tab.log.number \in DOMAIN list
                                                /\ work[list[tab.log.number]] = "finished")
        BY <3>1 DEF Inductive, LogHolds
      <4>2. LogText # "part"
        BY <4>1, RowAssumption DEF LogText
      <4> QED BY <3>1, <3>6, <4>1, <4>2 DEF LogHolds, world, setting
    <3> QED BY <3>3, <3>4, <3>5, <3>7 DEF Inductive
  <2>2. CASE Redirect
    BY <1>3, <2>2, RedirectHolds DEF LogPoll
  <2> QED BY <1>3, <2>1, <2>2 DEF LogPoll
<1>4. ASSUME NEW n \in Numbers, OpenRecent(n) PROVE Inductive'
  <2> DEFINE log == [number |-> n, known |-> Known(work[list[n]]), own |-> TRUE,
                     edits |-> counts.edits, text |-> None]
             s == [tab EXCEPT !.route = "log", !.log = log]
  <2>1. log \in Log
    BY CountsNat DEF Log, Known
  <2>2. /\ tab' = NodeSet(s, n) /\ UNCHANGED <<world, act, counts>>
        /\ view = "jobs" /\ n \in DOMAIN list
    BY <1>4 DEF OpenRecent
  <2> HIDE DEF log
  <2>3. /\ s \in Tab /\ s.cache = tab.cache /\ s.fetch = tab.fetch /\ s.acked = tab.acked
        /\ s.ask = tab.ask /\ s.prev = tab.prev /\ s.node = tab.node /\ s.log = log
    BY <2>1, TypeOf DEF Tab
  <2> HIDE DEF s
  <2>4. CacheHolds' /\ ScreenHolds' /\ ActHolds' /\ tab'.log = log
    BY <1>1, <2>2, <2>3, NodeSetHolds
  <2>5. LogHolds'
    <3>1. /\ log.number = n /\ (log.known => work[list[n]] = "finished")
          /\ log.edits = counts.edits /\ log.text # "part"
      BY RowAssumption DEF log, Known
    <3>2. UNCHANGED <<view, list, work, counts>>
      BY <2>2 DEF world, setting
    <3> QED BY <2>2, <2>4, <3>1, <3>2, CountsNat DEF LogHolds
  <2> QED BY <1>1, <2>2, <2>4, <2>5 DEF Inductive
<1> QED BY <1>2, <1>3, <1>4 DEF LogPage
-----------------------------------------------------------------------------
LEMMA InitHolds ==
    ASSUME Init
    PROVE  Inductive
<1>1. /\ tab.prev = None /\ tab.ask = None /\ tab.log = None
      /\ \A n \in Numbers : tab.cache[n] = None /\ tab.fetch[n] = None /\ tab.acked[n] = 0
  BY DEF Init, Fresh, Nothing
<1>2. counts.handled = 0
  BY DEF Init, Counted
<1>3. CacheHolds /\ ScreenHolds /\ LogHolds
  BY <1>1, <1>2, NoRowReads, RowAssumption DEF CacheHolds, ScreenHolds, LogHolds, Read, Kept
<1>4. ActHolds
  BY DEF Init, ActHolds
<1>5. WorkHolds
  BY ServerAssumption DEF Init, WorkHolds, Subjects, JobStates
<1> QED BY <1>3, <1>4, <1>5 DEF Inductive

LEMMA StepHolds ==
    ASSUME TypeOK, TypeOK', Inductive, [Next]_vars
    PROVE  Inductive'
<1>1. CASE UNCHANGED vars
  BY <1>1, QuietHolds DEF vars, setting, Quiet, SameRows
<1>2. CASE Session
  BY <1>2, SessionTyped, QuietHolds
<1> QED BY <1>1, <1>2, NodeHolds, PageHolds, LogPageHolds DEF Next

LEMMA InductiveCorrect == Spec => [](TypeOK /\ Inductive)
<1>1. Init => Inductive
  BY InitHolds
<1>2. TypeOK /\ TypeOK' /\ Inductive /\ [Next]_vars => Inductive'
  BY StepHolds
<1> QED BY <1>1, <1>2, TypeCorrect, PTL DEF Spec

\* For every server list, every edit of it and every pace of the answers: an action that was
\* handled under the list its row was read from acted on the job of that row (url_stop of
\* apiv2.py, the actions of jobs.tsx).
THEOREM ActsHitTheirRowCorrect == Spec => []ActsHitTheirRow
<1>1. TypeOK /\ Inductive => ActsHitTheirRow
  BY DEF Inductive, ActHolds, ActsHitTheirRow, NoAct
<1> QED BY <1>1, InductiveCorrect, PTL

\* A log page that has stopped polling never keeps the beginning of a log for the whole of
\* it (?finished=1 of jobs.tsx, the polling of log.tsx).
THEOREM LogWholeCorrect == Spec => []LogWhole
<1>1. Inductive => LogWhole
  BY DEF Inductive, LogHolds, LogWhole
<1> QED BY <1>1, InductiveCorrect, PTL

\* An answer read before an action of the user was acknowledged is never put on the screen
\* after it, however late it arrives (invalidateQueries of jobs.tsx and tasks.tsx).
THEOREM ReadYourActsCorrect == Spec => ReadYourActs
<1> DEFINE Change == \A n \in Numbers :
                        tab'.cache[n] # tab.cache[n] /\ tab'.cache[n] \in Row
                            => tab'.cache[n].handled >= tab.acked[n]
<1>1. TypeOK /\ Inductive /\ [Next]_vars => [Change]_vars
  <2> SUFFICES ASSUME TypeOK, Inductive, Next PROVE Change
    OBVIOUS
  <2>1. ASSUME Redirect PROVE Change
    BY <2>1, RowAssumption DEF Redirect, Fresh, Nothing
  <2>2. ASSUME tab'.cache = tab.cache PROVE Change
    BY <2>2
  <2>3. CASE Session
    BY <2>2, <2>3, SessionTyped DEF Quiet, SameRows
  <2>4. ASSUME NEW s \in Tab, NEW n \in Numbers, s.cache = tab.cache, tab' = NodeSet(s, n)
        PROVE  Change
    BY <2>2, <2>4, NodeSetTyped
  <2>5. ASSUME NEW l \in Lists, tab' = NodesApplied(tab, l) PROVE Change
    <3>1. [tab EXCEPT !.nodes = l] \in Tab /\ [tab EXCEPT !.nodes = l].cache = tab.cache
          /\ [tab EXCEPT !.nodes = l].node \in Numbers
      BY TypeOf DEF Tab
    <3> HIDE DEF Change
    <3> QED BY <2>4, <2>5, <3>1 DEF NodesApplied
  <2> HIDE DEF Change
  <2>6. CASE Node
    <3>1. list \in Lists
      BY DEF TypeOK
    <3> QED BY <2>1, <2>2, <2>4, <2>5, <2>6, <3>1, TypeOf
            DEF Node, NodesPoll, StatusPoll, setNode, EditServers
  <2>7. ASSUME NEW n \in Numbers, ListApply(n) PROVE Change
    <3>1. \A m \in Numbers : tab'.cache[m] = IF m = n THEN tab.fetch[n] ELSE tab.cache[m]
      BY <2>7, TypeOf DEF ListApply, Tab
    <3> QED BY <3>1 DEF Change, Inductive, CacheHolds
  <2>8. ASSUME NEW n \in Numbers, FromDashboard(n) PROVE Change
    <3>1. [tab EXCEPT !.route = "list"] \in Tab /\ [tab EXCEPT !.route = "list"].cache = tab.cache
      BY TypeOf DEF Tab
    <3> QED BY <2>4, <2>8, <3>1 DEF FromDashboard
  <2>9. CASE ActAnswer
    <3>1. ActInvalidated(tab) \in {tab, [tab EXCEPT !.fetch[tab.node] = RowsNow(tab.node)]}
      BY DEF ActInvalidated
    <3>2. PICK t \in {tab, [tab EXCEPT !.fetch[tab.node] = RowsNow(tab.node)]} :
             tab' \in {t, [t EXCEPT !.acked[tab.node] = act.order]}
      BY <2>9, <3>1 DEF ActAnswer
    <3>3. t \in Tab /\ t.cache = tab.cache
      BY <3>2, TypeOf, RowsRead DEF Tab
    <3>4. tab'.cache = tab.cache
      BY <3>2, <3>3 DEF Tab
    <3> QED BY <2>2, <3>4
  <2>10. CASE Page
    <3>1. CASE ListPoll
      <4>1. [tab EXCEPT !.fetch[tab.node] = RowsNow(tab.node)].cache = tab.cache
        BY TypeOf DEF Tab
      <4> QED BY <2>1, <2>2, <3>1, <4>1 DEF ListPoll
    <3>2. ASSUME Confirm \/ ActHandle \/ (\E page \in {"home", "list"} : Go(page))
                 \/ (\E verb \in Verbs : Click(verb)) \/ (\E s \in Subjects : WorkEnds(s))
          PROVE  tab'.cache = tab.cache
      BY <3>2, TypeOf DEF Confirm, ActHandle, Go, Click, WorkEnds, Tab
    <3> QED BY <2>2, <2>7, <2>8, <2>9, <2>10, <3>1, <3>2 DEF Page
  <2>11. CASE LogPage
    <3>1. CASE OpenLog
      BY <2>2, <3>1, TypeOf DEF OpenLog, Tab
    <3>2. CASE LogPoll
      <4>1. [tab EXCEPT !.log.text = LogText].cache = tab.cache
        BY TypeOf DEF Tab
      <4> QED BY <2>1, <2>2, <3>2, <4>1 DEF LogPoll
    <3>3. ASSUME NEW n \in Numbers, OpenRecent(n) PROVE Change
      <4> DEFINE log == [number |-> n, known |-> Known(work[list[n]]), own |-> TRUE,
                         edits |-> counts.edits, text |-> None]
                 s == [tab EXCEPT !.route = "log", !.log = log]
      <4>1. log \in Log /\ tab' = NodeSet(s, n)
        BY <3>3, CountsNat DEF OpenRecent, Log, Known
      <4> HIDE DEF log
      <4>2. s \in Tab /\ s.cache = tab.cache
        BY <4>1, TypeOf DEF Tab
      <4> HIDE DEF s
      <4> QED BY <2>4, <4>1, <4>2
    <3> QED BY <2>11, <3>1, <3>2, <3>3 DEF LogPage
  <2> QED BY <2>3, <2>6, <2>10, <2>11 DEF Next
<1> QED BY <1>1, InductiveCorrect, PTL DEF Spec, ReadYourActs
=============================================================================
