------------------------ MODULE ScheduleForm_submits ------------------------
(***************************************************************************)
(* Proofs about ScheduleForm: the types of the forms, the submits and what *)
(* the server keeps, on which nodes a submit starts jobs, which version is *)
(* recorded for them, that what runs is what was checked, and that saving  *)
(* an edited task keeps the rest of it.                                    *)
(***************************************************************************)
EXTENDS ScheduleForm_proofs

(* Lists of nodes.                                                            *)

LEMMA NodeListType ==
    ASSUME NEW s \in NodeLists
    PROVE  /\ s \in Seq(Nodes) /\ s \in Seq(Nat) /\ s # << >> /\ Len(s) \in Nat \ {0}
           /\ \A i, k \in 1..Len(s) : s[i] = s[k] => i = k
<1>1. PICK k \in 1..Cardinality(Nodes) : s \in [1..k -> Nodes] /\ IsInjective(s)
  BY DEF NodeLists
<1>2. Cardinality(Nodes) \in Nat
  BY FormAssumption, FS_CardinalityType
<1>3. k \in Nat \ {0} /\ s \in Seq(Nodes) /\ Len(s) = k
  BY <1>1, <1>2
<1>4. s \in Seq(Nat)
  BY <1>3, VersionAssumption, SeqMonotonic
<1> QED BY <1>1, <1>3, <1>4 DEF IsInjective

LEMMA AscendingIsNodeList ==
    ASSUME NEW s \in Seq(Nodes), s # << >>, Ascending(s)
    PROVE  s \in NodeLists
<1> DEFINE k == Len(s)
<1>1. k \in Nat /\ k # 0 /\ s \in [1..k -> Nodes] /\ Nodes \in SUBSET Nat
  BY VersionAssumption
<1> HIDE DEF k
<1>2. s \in Injection(1..k, Nodes) /\ IsInjective(s)
  BY <1>1, AscendingInjective
<1>3. Cardinality(1..k) = k /\ IsFiniteSet(1..k)
  BY <1>1, FS_Interval
<1>4. k <= Cardinality(Nodes) /\ Cardinality(Nodes) \in Nat
  BY <1>2, <1>3, FS_Injection, FormAssumption, FS_CardinalityType
<1>5. k \in 1..Cardinality(Nodes)
  BY <1>1, <1>4
<1> QED BY <1>1, <1>2, <1>5 DEF NodeLists

LEMMA RemoveAtProperties ==
    ASSUME NEW S, NEW s \in Seq(S), NEW i \in 1..Len(s)
    PROVE  /\ RemoveAt(s, i) \in Seq(S) /\ Len(RemoveAt(s, i)) = Len(s) - 1
           /\ \A k \in 1..Len(s) - 1 :
                  RemoveAt(s, i)[k] = IF k < i THEN s[k] ELSE s[k + 1]
<1> DEFINE a == SubSeq(s, 1, i - 1)
           b == SubSeq(s, i + 1, Len(s))
<1>1. Len(s) \in Nat /\ i \in Nat /\ i >= 1 /\ i <= Len(s) /\ \A k \in 1..Len(s) : s[k] \in S
  OBVIOUS
<1>2. /\ a \in Seq(S) /\ Len(a) = i - 1
      /\ \A k \in 1..i - 1 : a[k] = s[k]
  <2>1. \A k \in 1..i - 1 : s[k] \in S
    BY <1>1
  <2> QED BY <1>1, <2>1, SubSeqProperties
<1>3. /\ b \in Seq(S) /\ Len(b) = Len(s) - i
      /\ \A k \in 1..Len(s) - i : b[k] = s[k + i]
  <2>1. \A k \in i + 1..Len(s) : s[k] \in S
    BY <1>1
  <2>2. /\ b \in Seq(S) /\ Len(b) = IF i + 1 <= Len(s) THEN Len(s) - (i + 1) + 1 ELSE 0
        /\ \A k \in 1..Len(s) - (i + 1) + 1 : b[k] = s[i + 1 + k - 1]
    BY <1>1, <2>1, SubSeqProperties
  <2>3. Len(b) = Len(s) - i
    BY <1>1, <2>2
  <2>4. ASSUME NEW k \in 1..Len(s) - i PROVE b[k] = s[k + i]
    <3>1. k \in 1..Len(s) - (i + 1) + 1 /\ i + 1 + k - 1 = k + i
      BY <1>1
    <3> QED BY <2>2, <3>1
  <2> QED BY <2>2, <2>3, <2>4
<1> HIDE DEF a, b
<1>4. /\ a \o b \in Seq(S) /\ Len(a \o b) = Len(a) + Len(b)
      /\ \A k \in 1..Len(a) + Len(b) : (a \o b)[k] = IF k <= Len(a) THEN a[k] ELSE b[k - Len(a)]
  BY <1>2, <1>3, ConcatProperties
<1>5. Len(a) + Len(b) = Len(s) - 1
  BY <1>1, <1>2, <1>3
<1>6. ASSUME NEW k \in 1..Len(s) - 1 PROVE (a \o b)[k] = IF k < i THEN s[k] ELSE s[k + 1]
  <2>1. (a \o b)[k] = IF k <= Len(a) THEN a[k] ELSE b[k - Len(a)]
    BY <1>4, <1>5
  <2>2. CASE k < i
    BY <1>1, <1>2, <2>1, <2>2
  <2>3. CASE ~(k < i)
    <3>1. k - Len(a) \in 1..Len(s) - i /\ k - Len(a) + i = k + 1 /\ ~(k <= Len(a))
      BY <1>1, <1>2, <2>3
    <3>2. (a \o b)[k] = b[k - Len(a)]
      BY <2>1, <3>1
    <3>3. ASSUME NEW j \in 1..Len(s) - i, j + i = k + 1 PROVE b[j] = s[k + 1]
      BY <1>3, <3>3
    <3> QED BY <1>1, <2>3, <3>1, <3>2, <3>3
  <2> QED BY <2>2, <2>3
<1>7. RemoveAt(s, i) = a \o b
  BY DEF RemoveAt, a, b
<1> QED BY <1>4, <1>5, <1>6, <1>7

\* Picking nodes keeps a list that ascends.
LEMMA ToggledAscends ==
    ASSUME NEW s \in NodeLists, Ascending(s), NEW n \in Nodes, Toggled(s, n) # << >>
    PROVE  Toggled(s, n) \in NodeLists /\ Ascending(Toggled(s, n))
<1> DEFINE t == Toggled(s, n)
<1>0. s \in Seq(Nodes) /\ Len(s) \in Nat /\ DOMAIN s = 1..Len(s)
  BY NodeListType
<1>1. t \in Seq(Nodes) /\ Ascending(t)
  <2>1. CASE n \in Range(s)
    <3>1. PICK i \in 1..Len(s) : t = RemoveAt(s, i)
      BY <1>0, <2>1 DEF Toggled, Range
    <3>2. /\ t \in Seq(Nodes) /\ Len(t) = Len(s) - 1
          /\ \A k \in 1..Len(s) - 1 : t[k] = IF k < i THEN s[k] ELSE s[k + 1]
      BY <1>0, <3>1, RemoveAtProperties
    <3> HIDE DEF t
    <3>3. ASSUME NEW j \in 1..Len(s) - 1, NEW k \in 1..Len(s) - 1, j < k PROVE t[j] < t[k]
      <4>1. \A x, y \in 1..Len(s) : x < y => s[x] < s[y]
        BY <1>0 DEF Ascending
      <4>2. j \in 1..Len(s) /\ j + 1 \in 1..Len(s) /\ k \in 1..Len(s) /\ k + 1 \in 1..Len(s)
            /\ j < k + 1 /\ j + 1 < k + 1 /\ (~(j < i) => ~(k < i))
        BY <1>0, <3>3
      <4> QED BY <3>2, <3>3, <4>1, <4>2
    <3>4. DOMAIN t = 1..Len(s) - 1
      BY <3>2
    <3> QED BY <3>2, <3>3, <3>4 DEF Ascending
  <2>2. CASE n \notin Range(s)
    <3> DEFINE S == Range(s) \cup {n}
    <3>1. Range(s) \in SUBSET Nodes
      BY <1>0, RangeOfSeq
    <3>2. S \in SUBSET Nodes /\ S \in SUBSET Nat
      BY <3>1, VersionAssumption
    <3>3. IsFiniteSet(S)
      BY <3>2, FS_Subset, FormAssumption
    <3>4. t = Sorted(S)
      BY <2>2 DEF Toggled
    <3> HIDE DEF S, t
    <3>5. t \in [1..Cardinality(S) -> S] /\ Ascending(t) /\ Cardinality(S) \in Nat
      BY <3>2, <3>3, <3>4, SortedSorts, FS_CardinalityType
    <3>6. t \in Seq(S)
      BY <3>5
    <3> QED BY <3>2, <3>5, <3>6, SeqMonotonic
  <2> QED BY <2>1, <2>2
<1> QED BY <1>1, AscendingIsNodeList

LEMMA LatestIn ==
    ASSUME NEW n \in Nodes
    PROVE  Latest(n) \in Versions \cup {0} /\ Latest(n) \in Nat
<1>1. Present(n) \in SUBSET Versions /\ Versions \in SUBSET Nat /\ IsFiniteSet(Present(n))
  BY VersionAssumption, FS_Subset DEF Present
<1>2. CASE Present(n) = {}
  BY <1>2 DEF Latest
<1>3. CASE Present(n) # {}
  <2>1. Max(Present(n)) \in Present(n)
    BY <1>1, <1>3, EndsOf
  <2>2. Max(Present(n)) \in Versions
    BY <1>1, <2>1
  <2> QED BY <1>1, <1>3, <2>2 DEF Latest
<1> QED BY <1>2, <1>3
-----------------------------------------------------------------------------
(* What holds between the steps.                                              *)

\* The nodes of a form ascend, and what was not touched is as it was shown; ids: the tasks.
FormOK(f, ids) ==
    /\ f \in Form /\ Ascending(f.nodes)
    /\ f.base # None => /\ f.edit /\ f.id \in ids
                        /\ \A c \in Columns \ f.touched : f[c] = f.base[c]
RowOK(row) == row # None => Ascending(row.nodes)
PageOK(u) ==
    /\ form[u] # None => FormOK(form[u], DOMAIN tasks)
    /\ seen[u] # None => /\ Len(seen[u]) <= Len(tasks)
                         /\ \A i \in DOMAIN seen[u] : RowOK(seen[u][i])

\* Where a submit stands.
PostOK(u) ==
    post[u].pc # "idle" =>
        /\ FormOK(V(u), DOMAIN tasks)
        /\ post[u].stamp \in 1..checks[V(u).target] /\ file[V(u).target] \in Args
        /\ post[u].pc = "checked" => post[u].left = Tail(V(u).nodes) /\ jobs[u] = << >>
        /\ post[u].pc = "started" => jobs[u] # << >>
        /\ post[u].pc = "fan" => post[u].left # << >> /\ V(u).mode = "now"

\* The nodes that have a job and those that are left are different nodes of the form.
JobsOK(nodes, left, js) ==
    /\ \A i, k \in DOMAIN js : js[i].node = js[k].node => i = k
    /\ \A i \in DOMAIN js : js[i].node \in nodes \ Range(left)
    /\ \A i, k \in DOMAIN left : left[i] = left[k] => i = k
    /\ Range(left) \subseteq nodes

\* While the versions of the node are those that the job saw, its version is the one that
\* the name resolves to.
Newest(eggs) ==
    LET there == {v \in Versions : eggs[v] # None} IN IF there = {} THEN 0 ELSE Max(there)
RanOK(job, target, eggs, times) ==
    /\ \A v \in Versions : job.at[v] <= times[v]
    /\ job.at = times => job.ran = IF target = Default THEN Newest(eggs) ELSE target
VersionsOK(js) == \A i \in DOMAIN js : js[i].same => js[i].recorded = js[i].ran
LastJob(u) == jobs[u][Len(jobs[u])]
StartedOK(u) ==
    post[u].pc = "started" =>
        RanOK(LastJob(u), V(u).target, held[LastJob(u).node], changes[LastJob(u).node])

\* Until the key is checked again, the slot and the pickle have of it what this form says.
Matches(entry, v) ==
    /\ entry.args = v.args
    /\ v.mode = "now" => entry.kind = "job"
    /\ v.mode = "cron" => /\ entry.kind \in {"task", "taken"}
                          /\ entry.id = v.id /\ entry.when = v.when
OwnOK(u) ==
    post[u].pc # "idle" /\ Own(u) =>
        /\ file[V(u).target] = V(u).args
        /\ \A i \in DOMAIN slot : slot[i].key = V(u).target => Matches(slot[i], V(u))
        /\ \A i \in DOMAIN jobs[u] : jobs[u][i].args = V(u).args

SharedOK ==
    /\ \A i \in DOMAIN tasks : RowOK(tasks[i])
    /\ \A i \in DOMAIN slot : slot[i].kind = "task" => slot[i].when \in Whens
SubmitOK(u) ==
    /\ PostOK(u) /\ JobsOK(Range(V(u).nodes), post[u].left, jobs[u])
    /\ VersionsOK(jobs[u]) /\ StartedOK(u) /\ OwnOK(u)
FormInv == FormTypeOK /\ SharedOK /\ \A u \in Users : PageOK(u) /\ SubmitOK(u)

\* What the others may do to the tasks, the slot and the pickles.
Popped(old, new) == \/ old = new
                    \/ old.kind = "task" /\ new = [old EXCEPT !.kind = "taken"]
SharedMoves ==
    /\ Len(tasks') >= Len(tasks)
    /\ \A k \in Keys :
           /\ checks'[k] >= checks[k] /\ file'[k] \in {file[k]} \cup Args
           /\ checks'[k] = checks[k] =>
                  /\ file'[k] = file[k]
                  /\ \A i \in DOMAIN slot' : slot'[i].key = k =>
                         \E j \in DOMAIN slot : slot[j].key = k /\ Popped(slot[j], slot'[i])

LEMMA MatchesKept ==
    ASSUME NEW v \in Form, NEW old \in Entry, NEW new, Popped(old, new), Matches(old, v)
    PROVE  Matches(new, v)
BY DEF Popped, Matches, Entry, Form

LEMMA TaskIds ==
    ASSUME FormTypeOK, FormTypeOK', Len(tasks') >= Len(tasks)
    PROVE  DOMAIN tasks \subseteq DOMAIN tasks'
<1>1. /\ DOMAIN tasks = 1..Len(tasks) /\ DOMAIN tasks' = 1..Len(tasks')
      /\ Len(tasks) \in Nat /\ Len(tasks') \in Nat
  BY DEF FormTypeOK
<1> QED BY <1>1

LEMMA FormKept ==
    ASSUME NEW f, NEW ids, NEW more, ids \subseteq more, FormOK(f, ids)
    PROVE  FormOK(f, more)
BY DEF FormOK

LEMMA PageKept ==
    ASSUME FormTypeOK, FormTypeOK', Len(tasks') >= Len(tasks), NEW q \in Users, PageOK(q),
           form'[q] \in {form[q], None}, seen'[q] = seen[q]
    PROVE  PageOK(q)'
<1>1. form'[q] # None => FormOK(form'[q], DOMAIN tasks')
  BY TaskIds, FormKept DEF PageOK
<1>2. seen[q] # None => Len(seen[q]) <= Len(tasks')
  <2> SUFFICES ASSUME seen[q] # None PROVE Len(seen[q]) <= Len(tasks')
    OBVIOUS
  <2>1. Len(seen[q]) \in Nat /\ Len(tasks) \in Nat /\ Len(tasks') \in Nat
    BY DEF FormTypeOK
  <2>2. Len(seen[q]) <= Len(tasks)
    BY DEF PageOK
  <2> QED BY <2>1, <2>2
<1> QED BY <1>1, <1>2 DEF PageOK

\* What is shared stays in order for a submit that keeps its form and its stamp.
LEMMA KeyKept ==
    ASSUME FormTypeOK, FormTypeOK', SharedMoves, NEW q \in Users, PostOK(q), OwnOK(q),
           post[q].pc # "idle", post'[q].v = post[q].v, post'[q].stamp = post[q].stamp
    PROVE  /\ FormOK(post[q].v, DOMAIN tasks')
           /\ post[q].stamp \in 1..checks'[post[q].v.target]
           /\ file'[post[q].v.target] \in Args
           /\ checks'[post[q].v.target] = post[q].stamp =>
                  /\ Own(q) /\ file'[post[q].v.target] = post[q].v.args
                  /\ \A i \in DOMAIN slot' :
                         slot'[i].key = post[q].v.target => Matches(slot'[i], post[q].v)
<1> DEFINE v == post[q].v
           k == post[q].v.target
           s == post[q].stamp
<1>1. FormOK(v, DOMAIN tasks) /\ s \in 1..checks[k] /\ file[k] \in Args
  BY DEF PostOK, V
<1>2. v \in Form /\ k \in Keys /\ DOMAIN tasks \subseteq DOMAIN tasks'
  BY <1>1, TaskIds DEF FormOK, Form, SharedMoves
<1>3. /\ s \in Nat /\ checks[k] \in Nat /\ checks'[k] \in Nat
  BY <1>2 DEF FormTypeOK, Post
<1>4. checks'[k] >= checks[k] /\ file'[k] \in Args
  BY <1>1, <1>2 DEF SharedMoves
<1>5. ASSUME checks'[k] = s
      PROVE  /\ Own(q) /\ file'[k] = v.args
             /\ \A i \in DOMAIN slot' : slot'[i].key = k => Matches(slot'[i], v)
  <2>1. checks[k] = s /\ checks'[k] = checks[k]
    BY <1>1, <1>3, <1>4, <1>5
  <2>2. Own(q)
    BY <2>1 DEF Own, V
  <2>3. /\ file[k] = v.args
        /\ \A i \in DOMAIN slot : slot[i].key = k => Matches(slot[i], v)
    BY <2>2 DEF OwnOK, V
  <2>4. /\ file'[k] = file[k]
        /\ \A i \in DOMAIN slot' : slot'[i].key = k =>
               \E j \in DOMAIN slot : slot[j].key = k /\ Popped(slot[j], slot'[i])
    BY <1>2, <2>1 DEF SharedMoves
  <2>5. ASSUME NEW i \in DOMAIN slot', slot'[i].key = k PROVE Matches(slot'[i], v)
    <3>1. PICK j \in DOMAIN slot : slot[j].key = k /\ Popped(slot[j], slot'[i])
      BY <2>4, <2>5
    <3>2. slot[j] \in Entry
      BY DEF FormTypeOK
    <3>3. Matches(slot[j], v)
      BY <2>3, <3>1
    <3> HIDE DEF v
    <3> QED BY <1>2, <3>1, <3>2, <3>3, MatchesKept
  <2> QED BY <2>2, <2>3, <2>4, <2>5
<1>6. FormOK(v, DOMAIN tasks')
  BY <1>1, <1>2, FormKept
<1>7. s \in 1..checks'[k]
  BY <1>1, <1>3, <1>4
<1> QED BY <1>4, <1>5, <1>6, <1>7

\* What the others deploy and delete does not make a job wrong about its version.
LEMMA RanKept ==
    ASSUME DeploysTypeOK, changes' \in [Nodes -> [Versions -> Nat]], held' \in Eggs, EggsMove,
           NEW job \in Job, NEW target, RanOK(job, target, held[job.node], changes[job.node])
    PROVE  RanOK(job, target, held'[job.node], changes'[job.node])
<1> DEFINE n == job.node
<1>1. n \in Nodes /\ job.at \in [Versions -> Nat]
  BY DEF Job
<1>2. /\ changes[n] \in [Versions -> Nat] /\ changes'[n] \in [Versions -> Nat]
      /\ held[n] \in [Versions -> Egg \cup {None}] /\ held'[n] \in [Versions -> Egg \cup {None}]
  BY <1>1 DEF DeploysTypeOK, Eggs
<1>3. \A v \in Versions : \/ held'[n][v] = held[n][v] /\ changes'[n][v] = changes[n][v]
                          \/ changes'[n][v] = changes[n][v] + 1
  BY <1>1 DEF EggsMove
<1>4. \A v \in Versions : job.at[v] <= changes[n][v]
  BY DEF RanOK
<1>5. ASSUME NEW v \in Versions PROVE job.at[v] <= changes'[n][v]
  <2>1. job.at[v] \in Nat /\ changes[n][v] \in Nat /\ changes'[n][v] \in Nat
    BY <1>1, <1>2
  <2> QED BY <1>3, <1>4, <2>1
<1>6. ASSUME job.at = changes'[n]
      PROVE  job.ran = IF target = Default THEN Newest(held'[n]) ELSE target
  <2>1. ASSUME NEW v \in Versions PROVE held'[n][v] = held[n][v] /\ changes[n][v] = job.at[v]
    <3>1. job.at[v] \in Nat /\ changes[n][v] \in Nat /\ job.at[v] <= changes[n][v]
      BY <1>1, <1>2, <1>4
    <3>2. changes'[n][v] # changes[n][v] + 1
      BY <1>6, <3>1
    <3> QED BY <1>3, <1>6, <3>2
  <2>2. held'[n] = held[n] /\ changes[n] = job.at
    <3> HIDE DEF n
    <3> QED BY <1>1, <1>2, <2>1
  <2> QED BY <2>2 DEF RanOK
<1> QED BY <1>5, <1>6 DEF RanOK

\* A submit that another step leaves alone.
LEMMA SubmitKept ==
    ASSUME DeploysTypeOK, changes' \in [Nodes -> [Versions -> Nat]], held' \in Eggs, EggsMove,
           FormTypeOK, FormTypeOK', SharedMoves, NEW q \in Users, SubmitOK(q),
           post'[q] = post[q], jobs'[q] = jobs[q]
    PROVE  SubmitOK(q)'
<1>1. PostOK(q) /\ OwnOK(q) /\ StartedOK(q)
  BY DEF SubmitOK
<1>2. JobsOK(Range(V(q).nodes), post[q].left, jobs[q])' /\ VersionsOK(jobs[q])'
  BY DEF SubmitOK, V
<1>3. CASE post[q].pc = "idle"
  BY <1>2, <1>3 DEF SubmitOK, PostOK, OwnOK, StartedOK
<1>4. CASE post[q].pc # "idle"
  <2>1. /\ FormOK(post[q].v, DOMAIN tasks')
        /\ post[q].stamp \in 1..checks'[post[q].v.target]
        /\ file'[post[q].v.target] \in Args
        /\ checks'[post[q].v.target] = post[q].stamp =>
               /\ Own(q) /\ file'[post[q].v.target] = post[q].v.args
               /\ \A i \in DOMAIN slot' :
                      slot'[i].key = post[q].v.target => Matches(slot'[i], post[q].v)
    BY <1>1, <1>4, KeyKept
  <2>2. PostOK(q)'
    BY <1>1, <1>4, <2>1 DEF PostOK, V
  <2>3. OwnOK(q)'
    BY <1>1, <1>4, <2>1 DEF OwnOK, Own, V
  <2>4. StartedOK(q)'
    <3> SUFFICES ASSUME post[q].pc = "started" PROVE StartedOK(q)'
      BY DEF StartedOK
    <3> DEFINE job == jobs[q][Len(jobs[q])]
    <3>1. jobs[q] # << >> /\ jobs[q] \in Seq(Job)
      BY <1>1 DEF PostOK, FormTypeOK
    <3>2. job \in Job
      BY <3>1
    <3>3. RanOK(job, post[q].v.target, held[job.node], changes[job.node])
      BY <1>1 DEF StartedOK, LastJob, V
    <3> HIDE DEF job
    <3>4. RanOK(job, post[q].v.target, held'[job.node], changes'[job.node])
      BY <3>2, <3>3, RanKept
    <3> QED BY <3>4 DEF StartedOK, LastJob, V, job
  <2> QED BY <1>2, <2>2, <2>3, <2>4 DEF SubmitOK
<1> QED BY <1>3, <1>4

\* A submit that moves on with its form and its stamp.
LEMMA SubmitMoves ==
    ASSUME FormTypeOK, FormTypeOK', SharedMoves, NEW u \in Users, SubmitOK(u),
           post[u].pc # "idle", post'[u].v = post[u].v, post'[u].stamp = post[u].stamp,
           post'[u].pc \in {"idle", "started", "fan"},
           post'[u].pc = "started" => jobs'[u] # << >> /\ StartedOK(u)',
           post'[u].pc = "fan" => post'[u].left # << >> /\ V(u).mode = "now",
           JobsOK(Range(post[u].v.nodes), post'[u].left, jobs'[u]), VersionsOK(jobs'[u]),
           Own(u) => \A i \in DOMAIN jobs'[u] : jobs'[u][i].args = V(u).args
    PROVE  SubmitOK(u)'
<1>1. PostOK(u) /\ OwnOK(u)
  BY DEF SubmitOK
<1>2. /\ FormOK(post[u].v, DOMAIN tasks')
      /\ post[u].stamp \in 1..checks'[post[u].v.target]
      /\ file'[post[u].v.target] \in Args
      /\ checks'[post[u].v.target] = post[u].stamp =>
             /\ Own(u) /\ file'[post[u].v.target] = post[u].v.args
             /\ \A i \in DOMAIN slot' :
                    slot'[i].key = post[u].v.target => Matches(slot'[i], post[u].v)
  BY <1>1, KeyKept
<1>3. PostOK(u)'
  BY <1>2 DEF PostOK, V
<1>4. OwnOK(u)'
  BY <1>2 DEF OwnOK, Own, V
<1>5. StartedOK(u)'
  BY DEF StartedOK
<1> QED BY <1>3, <1>4, <1>5 DEF SubmitOK, V

-----------------------------------------------------------------------------
(* Nodes and jobs.                                                            *)
LEMMA JobsOnwards ==
    ASSUME NEW nodes, NEW left \in Seq(Nodes), left # << >>, NEW js \in Seq(Job),
           NEW job \in Job, job.node = Head(left), JobsOK(nodes, left, js)
    PROVE  JobsOK(nodes, Tail(left), Append(js, job))
<1> DEFINE l == Tail(left)
           ks == Append(js, job)
<1>1. /\ Head(left) = left[1] /\ l \in Seq(Nodes) /\ Len(l) = Len(left) - 1
      /\ Len(left) \in Nat /\ Len(left) # 0
      /\ \A i \in 1..Len(l) : l[i] = left[i + 1]
  BY HeadTailProperties
<1>2. /\ ks \in Seq(Job) /\ Len(ks) = Len(js) + 1 /\ ks[Len(js) + 1] = job /\ Len(js) \in Nat
      /\ \A i \in 1..Len(js) : ks[i] = js[i]
  BY AppendProperties
<1> HIDE DEF l, ks
<1>3. /\ DOMAIN js = 1..Len(js) /\ DOMAIN ks = 1..Len(js) + 1
      /\ DOMAIN left = 1..Len(left) /\ DOMAIN l = 1..Len(left) - 1
  BY <1>1, <1>2
<1>4. /\ \A i \in DOMAIN l : i + 1 \in DOMAIN left /\ i + 1 # 1 /\ l[i] = left[i + 1]
      /\ 1 \in DOMAIN left
  BY <1>1, <1>3
<1>5. Range(l) \subseteq Range(left) /\ left[1] \in Range(left) /\ left[1] \notin Range(l)
  BY <1>4 DEF Range, JobsOK
<1>6. \A i \in DOMAIN ks : \/ i \in DOMAIN js /\ ks[i] = js[i]
                           \/ i = Len(js) + 1 /\ ks[i].node = left[1]
  BY <1>1, <1>2, <1>3
<1>7. \A i \in DOMAIN js : js[i].node # left[1]
  BY <1>5 DEF JobsOK
<1>8. \A i, k \in DOMAIN ks : ks[i].node = ks[k].node => i = k
  BY <1>6, <1>7 DEF JobsOK
<1>9. \A i \in DOMAIN ks : ks[i].node \in nodes \ Range(l)
  BY <1>5, <1>6 DEF JobsOK
<1>10. \A i, k \in DOMAIN l : l[i] = l[k] => i = k
  <2> SUFFICES ASSUME NEW i \in DOMAIN l, NEW k \in DOMAIN l, l[i] = l[k] PROVE i = k
    OBVIOUS
  <2>1. i + 1 = k + 1
    BY <1>4 DEF JobsOK
  <2> QED BY <1>1, <1>3, <2>1
<1> QED BY <1>5, <1>8, <1>9, <1>10 DEF JobsOK, l, ks

LEMMA JobsTail ==
    ASSUME NEW nodes, NEW left \in Seq(Nodes), left # << >>, NEW js, JobsOK(nodes, left, js)
    PROVE  JobsOK(nodes, Tail(left), js)
<1> DEFINE l == Tail(left)
<1>1. /\ l \in Seq(Nodes) /\ Len(l) = Len(left) - 1 /\ Len(left) \in Nat
      /\ \A i \in 1..Len(l) : l[i] = left[i + 1]
  BY HeadTailProperties
<1> HIDE DEF l
<1>2. \A i \in DOMAIN l : i + 1 \in DOMAIN left /\ i \in Nat /\ l[i] = left[i + 1]
  BY <1>1
<1>3. Range(l) \subseteq Range(left)
  BY <1>2 DEF Range
<1>4. \A i, k \in DOMAIN l : l[i] = l[k] => i = k
  <2> SUFFICES ASSUME NEW i \in DOMAIN l, NEW k \in DOMAIN l, l[i] = l[k] PROVE i = k
    OBVIOUS
  <2>1. i + 1 = k + 1
    BY <1>2 DEF JobsOK
  <2> QED BY <1>2, <2>1
<1> QED BY <1>3, <1>4 DEF JobsOK, l

LEMMA JobsRest ==
    ASSUME NEW nodes, NEW left, NEW js, JobsOK(nodes, left, js)
    PROVE  JobsOK(nodes, << >>, js)
<1>1. DOMAIN << >> = {} /\ Range(<< >>) = {}
  BY DEF Range
<1> QED BY <1>1 DEF JobsOK

LEMMA JobsFirst ==
    ASSUME NEW s \in NodeLists
    PROVE  JobsOK(Range(s), s, << >>)
<1>1. DOMAIN << >> = {} /\ DOMAIN s = 1..Len(s)
  BY NodeListType
<1> QED BY <1>1, NodeListType DEF JobsOK

LEMMA JobsAlike ==
    ASSUME NEW nodes, NEW left, NEW js, NEW ks, JobsOK(nodes, left, js), DOMAIN ks = DOMAIN js,
           \A i \in DOMAIN js : ks[i].node = js[i].node
    PROVE  JobsOK(nodes, left, ks)
BY DEF JobsOK

-----------------------------------------------------------------------------
(* One user acts.                                                             *)
LEMMA ServerKept ==
    ASSUME FormTypeOK, ServerStays
    PROVE  SharedMoves
<1>1. /\ Len(tasks) \in Nat /\ \A k \in Keys : checks[k] \in Nat
      /\ tasks' = tasks /\ checks' = checks /\ file' = file /\ slot' = slot
  BY DEF FormTypeOK, ServerStays
<1>2. \A k \in Keys : checks'[k] >= checks[k]
  BY <1>1
<1>3. Len(tasks') >= Len(tasks)
  BY <1>1
<1>4. \A i \in DOMAIN slot' : slot'[i] = slot[i] /\ i \in DOMAIN slot /\ Popped(slot[i], slot'[i])
  BY <1>1 DEF Popped
<1> QED BY <1>1, <1>2, <1>3, <1>4 DEF SharedMoves

\* The others keep what holds for them.
LEMMA UserActs ==
    ASSUME DeploysInv, FormInv, FormTypeOK', SharedOK', SharedMoves, DeploysStay,
           NEW u \in Users, PageOK(u)', SubmitOK(u)',
           \A q \in Users \ {u} : /\ form'[q] = form[q] /\ seen'[q] = seen[q]
                                  /\ post'[q] = post[q] /\ jobs'[q] = jobs[q]
    PROVE  FormInv'
<1>1. /\ DeploysTypeOK /\ EggsMove
      /\ changes' \in [Nodes -> [Versions -> Nat]] /\ held' \in Eggs
  BY DEF DeploysInv, DeploysTypeOK, DeploysStay, deployVars, EggsMove
<1>2. ASSUME NEW q \in Users, q # u PROVE PageOK(q)' /\ SubmitOK(q)'
  <2>1. FormTypeOK /\ PageOK(q) /\ SubmitOK(q)
    BY DEF FormInv
  <2>2. PageOK(q)'
    BY <1>2, <2>1, PageKept DEF SharedMoves
  <2> QED BY <1>1, <1>2, <2>1, <2>2, SubmitKept
<1> QED BY <1>2 DEF FormInv

\* The submits stay, and one form or one list changes.
LEMMA PageActs ==
    ASSUME DeploysInv, FormInv, NEW u \in Users,
           form' \in [Users -> Form \cup {None}],
           seen' \in [Users -> {None} \cup Seq(Row \cup {None})], PageOK(u)',
           \A q \in Users \ {u} : form'[q] = form[q] /\ seen'[q] = seen[q],
           UNCHANGED <<post, jobs>>, ServerStays, DeploysStay
    PROVE  FormInv'
<1>1. FormTypeOK /\ SharedOK /\ SubmitOK(u)
  BY DEF FormInv
<1>2. FormTypeOK'
  BY <1>1 DEF FormTypeOK, ServerStays
<1>3. SharedOK'
  BY <1>1 DEF SharedOK, ServerStays
<1>4. /\ DeploysTypeOK /\ EggsMove
      /\ changes' \in [Nodes -> [Versions -> Nat]] /\ held' \in Eggs
  BY DEF DeploysInv, DeploysTypeOK, DeploysStay, deployVars, EggsMove
<1>5. SharedMoves
  BY <1>1, ServerKept
<1>6. SubmitOK(u)'
  BY <1>1, <1>2, <1>4, <1>5, SubmitKept
<1> QED BY <1>2, <1>3, <1>5, <1>6, UserActs

LEMMA FormActs ==
    ASSUME DeploysInv, FormInv, NEW u \in Users, NEW f \in Form \cup {None},
           f # None => FormOK(f, DOMAIN tasks), form' = [form EXCEPT ![u] = f],
           UNCHANGED <<seen, post, jobs>>, ServerStays, DeploysStay
    PROVE  FormInv'
<1>1. FormTypeOK /\ PageOK(u)
  BY DEF FormInv
<1>2. /\ form' \in [Users -> Form \cup {None}] /\ form'[u] = f
      /\ \A q \in Users \ {u} : form'[q] = form[q]
  BY <1>1 DEF FormTypeOK
<1>3. PageOK(u)'
  BY <1>1, <1>2 DEF PageOK, ServerStays
<1>4. seen' \in [Users -> {None} \cup Seq(Row \cup {None})] /\ seen' = seen
  BY <1>1 DEF FormTypeOK
<1> QED BY <1>2, <1>3, <1>4, PageActs

-----------------------------------------------------------------------------
(* The page.                                                                  *)

LEMMA BlankOK ==
    ASSUME NEW n \in Nodes, NEW target \in Keys, NEW mode \in Modes, NEW edit \in BOOLEAN,
           NEW ids
    PROVE  FormOK(Blank(n, target, mode, edit), ids)
<1>1. <<n>> \in Seq(Nodes) /\ <<n>> # << >> /\ Ascending(<<n>>)
  BY DEF Ascending
<1>2. <<n>> \in NodeLists
  BY <1>1, AscendingIsNodeList
<1>3. (CHOOSE a \in Args : TRUE) \in Args /\ (CHOOSE w \in Whens : TRUE) \in Whens
  BY FormAssumption
<1> QED BY <1>1, <1>2, <1>3 DEF Blank, FormOK, Form

LEMMA TaskToFormOK ==
    ASSUME NEW row \in Row, Ascending(row.nodes), NEW ids \in SUBSET Nat, NEW id \in ids
    PROVE  FormOK(TaskToForm(row, id), ids)
<1> DEFINE f == TaskToForm(row, id)
<1>1. /\ f.target = row.target /\ f.args = row.args /\ f.nodes = row.nodes
      /\ f.when = row.when /\ f.base = row /\ f.edit = TRUE /\ f.id = id
  BY DEF TaskToForm
<1>2. f \in Form
  BY DEF TaskToForm, Form, Row, Modes, Columns
<1> HIDE DEF f
<1>3. \A c \in Columns : f[c] = row[c]
  BY <1>1 DEF Columns
<1> QED BY <1>1, <1>2, <1>3 DEF FormOK, f

LEMMA OpenKeeps ==
    ASSUME DeploysInv, FormInv, NEW u \in Users, NEW n \in Nodes,
           \/ \E target \in Keys, mode \in Modes : OpenBlank(u, n, target, mode)
           \/ \E id \in DOMAIN tasks : OpenTask(u, id, n)
    PROVE  FormInv'
<1>1. ASSUME NEW f, FormOK(f, DOMAIN tasks), Opened(u, f) PROVE FormInv'
  <2>1. f \in Form
    BY <1>1 DEF FormOK
  <2> QED BY <1>1, <2>1, FormActs DEF Opened
<1>2. ASSUME NEW target \in Keys, NEW mode \in Modes, OpenBlank(u, n, target, mode)
      PROVE  FormInv'
  <2>1. FormOK(Blank(n, target, mode, FALSE), DOMAIN tasks)
    BY BlankOK
  <2> QED BY <1>1, <1>2, <2>1 DEF OpenBlank
<1>3. ASSUME NEW id \in DOMAIN tasks, OpenTask(u, id, n) PROVE FormInv'
  <2>0. /\ FormTypeOK /\ PageOK(u) /\ seen[u] # None
        /\ DOMAIN tasks \in SUBSET Nat
    BY <1>3 DEF FormInv, OpenTask, FormTypeOK
  <2>1. CASE id <= Len(seen[u]) /\ seen[u][id] # None
    <3>1. seen[u] \in Seq(Row \cup {None})
      BY <2>0 DEF FormTypeOK
    <3>2. id \in DOMAIN seen[u]
      <4>1. id \in Nat /\ id >= 1 /\ Len(seen[u]) \in Nat
        BY <2>0, <3>1 DEF FormTypeOK
      <4> QED BY <2>1, <3>1, <4>1
    <3>3. seen[u][id] \in Row
      BY <2>1, <3>1, <3>2
    <3>4. Ascending(seen[u][id].nodes)
      BY <2>0, <2>1, <3>2 DEF PageOK, RowOK
    <3>5. FormOK(TaskToForm(seen[u][id], id), DOMAIN tasks)
      BY <2>0, <3>3, <3>4, TaskToFormOK
    <3>6. Opened(u, TaskToForm(seen[u][id], id))
      BY <1>3, <2>1 DEF OpenTask
    <3> QED BY <1>1, <3>5, <3>6
  <2>2. CASE ~(id <= Len(seen[u]) /\ seen[u][id] # None)
    <3>1. Opened(u, Blank(n, Default, "now", TRUE))
      BY <1>3, <2>2 DEF OpenTask
    <3>2. FormOK(Blank(n, Default, "now", TRUE), DOMAIN tasks)
      BY BlankOK DEF Keys, Modes
    <3> QED BY <1>1, <3>1, <3>2
  <2> QED BY <2>1, <2>2
<1> QED BY <1>2, <1>3

LEMMA ReadKeeps ==
    ASSUME DeploysInv, FormInv, NEW u \in Users, ReadTasks(u) \/ Leave(u)
    PROVE  FormInv'
<1>1. CASE ReadTasks(u)
  <2>0. FormTypeOK /\ PageOK(u) /\ SharedOK
    BY DEF FormInv
  <2>1. /\ seen' \in [Users -> {None} \cup Seq(Row \cup {None})] /\ seen'[u] = tasks
        /\ \A q \in Users \ {u} : seen'[q] = seen[q]
        /\ form' = form /\ form' \in [Users -> Form \cup {None}]
    BY <1>1, <2>0 DEF ReadTasks, FormTypeOK
  <2>2. tasks' = tasks /\ Len(tasks) \in Nat
    BY <1>1, <2>0 DEF ReadTasks, ServerStays, FormTypeOK
  <2>3. PageOK(u)'
    BY <2>0, <2>1, <2>2 DEF PageOK, SharedOK
  <2> QED BY <1>1, <2>1, <2>3, PageActs DEF ReadTasks
<1>2. CASE Leave(u)
  BY <1>2, FormActs DEF Leave
<1> QED BY <1>1, <1>2

\* A field of the form is changed, and marked as touched when the form is an edit.
LEMMA TypedKeeps ==
    ASSUME DeploysInv, FormInv, NEW u \in Users, NEW f, Typed(u, f), f \in Form,
           Ascending(f.nodes), f.base = form[u].base, f.edit = form[u].edit, f.id = form[u].id,
           form[u].edit => /\ form[u].touched \subseteq f.touched
                           /\ \A c \in Columns \ f.touched : f[c] = form[u][c]
    PROVE  FormInv'
<1>1. FormOK(form[u], DOMAIN tasks)
  BY DEF Typed, FormInv, PageOK
<1>2. FormOK(f, DOMAIN tasks)
  BY <1>1 DEF FormOK
<1> QED BY <1>2, FormActs DEF Typed

LEMMA FieldKeeps ==
    ASSUME DeploysInv, FormInv, NEW u \in Users,
           \/ \E n \in Nodes : PickNode(u, n) \/ FollowNode(u, n)
           \/ \E target \in Keys : SetTarget(u, target)
           \/ \E a \in Args : SetSettings(u, a) \/ SetArgs(u, a)
           \/ \E w \in Whens : SetWhen(u, w)
           \/ \E mode \in Modes : SetMode(u, mode)
    PROVE  FormInv'
<1> DEFINE g == form[u]
<1>1. g # None
  BY DEF PickNode, FollowNode, SetTarget, SetSettings, SetArgs, SetWhen, SetMode, Typed
<1>2. g \in Form /\ Ascending(g.nodes)
  BY <1>1 DEF FormInv, PageOK, FormOK
<1>3. /\ g.target \in Keys /\ g.args \in Args /\ g.nodes \in NodeLists /\ g.mode \in Modes
      /\ g.when \in Whens /\ g.edit \in BOOLEAN /\ g.id \in Nat /\ g.base \in Row \cup {None}
      /\ g.touched \in SUBSET Columns
      /\ Columns = {"target", "args", "nodes", "when"}
      /\ \A c \in Columns : Touch(u, c) =
             g.touched \cup (IF g.edit \/ c = "nodes" THEN {c} ELSE {})
  BY <1>2 DEF Form, Touch, Columns
<1>4. ASSUME NEW n \in Nodes, PickNode(u, n) PROVE FormInv'
  <2> DEFINE f == [g EXCEPT !.nodes = Toggled(@, n), !.touched = Touch(u, "nodes")]
  <2>1. Toggled(g.nodes, n) \in NodeLists /\ Ascending(Toggled(g.nodes, n))
    BY <1>2, <1>3, <1>4, ToggledAscends DEF PickNode
  <2>2. /\ f \in Form /\ f.nodes = Toggled(g.nodes, n) /\ f.base = g.base /\ f.edit = g.edit
        /\ f.id = g.id /\ f.touched = g.touched \cup {"nodes"}
        /\ f.target = g.target /\ f.args = g.args /\ f.when = g.when
    BY <1>2, <1>3, <2>1 DEF Form
  <2>3. Typed(u, f)
    BY <1>4 DEF PickNode
  <2> HIDE DEF f
  <2> QED BY <1>3, <2>1, <2>2, <2>3, TypedKeeps
<1>5. ASSUME NEW n \in Nodes, FollowNode(u, n) PROVE FormInv'
  <2> DEFINE f == [g EXCEPT !.nodes = <<n>>]
  <2>1. <<n>> \in NodeLists /\ Ascending(<<n>>)
    <3>1. <<n>> \in Seq(Nodes) /\ <<n>> # << >> /\ Ascending(<<n>>)
      BY DEF Ascending
    <3> QED BY <3>1, AscendingIsNodeList
  <2>2. /\ f \in Form /\ f.nodes = <<n>> /\ f.base = g.base /\ f.edit = g.edit /\ f.id = g.id
    BY <1>2, <1>3, <2>1 DEF Form
  <2>3. Typed(u, f) /\ ~g.edit
    BY <1>5 DEF FollowNode
  <2> HIDE DEF f
  <2> QED BY <2>1, <2>2, <2>3, TypedKeeps
<1>6. ASSUME NEW target \in Keys, SetTarget(u, target) PROVE FormInv'
  <2> DEFINE f == [g EXCEPT !.target = target, !.touched = Touch(u, "target")]
  <2>1. /\ f \in Form /\ f.nodes = g.nodes /\ f.base = g.base /\ f.edit = g.edit
        /\ f.id = g.id /\ f.touched = Touch(u, "target")
        /\ f.args = g.args /\ f.when = g.when
    BY <1>2, <1>3 DEF Form
  <2>2. Typed(u, f)
    BY <1>6 DEF SetTarget
  <2> HIDE DEF f
  <2> QED BY <1>2, <1>3, <2>1, <2>2, TypedKeeps
<1>7. ASSUME NEW a \in Args, SetSettings(u, a) \/ SetArgs(u, a) PROVE FormInv'
  <2> DEFINE f == [g EXCEPT !.args = a, !.touched = Touch(u, "args")]
  <2>1. /\ f \in Form /\ f.nodes = g.nodes /\ f.base = g.base /\ f.edit = g.edit
        /\ f.id = g.id /\ f.touched = Touch(u, "args")
        /\ f.target = g.target /\ f.when = g.when
    BY <1>2, <1>3 DEF Form
  <2>2. Typed(u, f)
    BY <1>7 DEF SetSettings, SetArgs
  <2> HIDE DEF f
  <2> QED BY <1>2, <1>3, <2>1, <2>2, TypedKeeps
<1>8. ASSUME NEW w \in Whens, SetWhen(u, w) PROVE FormInv'
  <2> DEFINE f == [g EXCEPT !.when = w, !.touched = Touch(u, "when")]
  <2>1. /\ f \in Form /\ f.nodes = g.nodes /\ f.base = g.base /\ f.edit = g.edit
        /\ f.id = g.id /\ f.touched = Touch(u, "when")
        /\ f.target = g.target /\ f.args = g.args
    BY <1>2, <1>3 DEF Form
  <2>2. Typed(u, f)
    BY <1>8 DEF SetWhen
  <2> HIDE DEF f
  <2> QED BY <1>2, <1>3, <2>1, <2>2, TypedKeeps
<1>9. ASSUME NEW mode \in Modes, SetMode(u, mode) PROVE FormInv'
  <2> DEFINE f == [g EXCEPT !.mode = mode]
  <2>1. /\ f \in Form /\ f.nodes = g.nodes /\ f.base = g.base /\ f.edit = g.edit
        /\ f.id = g.id /\ f.touched = g.touched
        /\ f.target = g.target /\ f.args = g.args /\ f.when = g.when
    BY <1>2, <1>3 DEF Form
  <2>2. Typed(u, f)
    BY <1>9 DEF SetMode
  <2> HIDE DEF f
  <2> QED BY <1>2, <1>3, <2>1, <2>2, TypedKeeps
<1> QED BY <1>4, <1>5, <1>6, <1>7, <1>8, <1>9
-----------------------------------------------------------------------------
(* check.                                                                     *)

\* The slot keeps its limit and one entry of each key.
LEMMA AddedProperties ==
    ASSUME FormTypeOK, NEW e \in Entry
    PROVE  /\ Added(e) \in Seq(Entry) /\ Len(Added(e)) <= SlotLimit
           /\ \A i, k \in DOMAIN Added(e) : Added(e)[i].key = Added(e)[k].key => i = k
           /\ \A i \in DOMAIN Added(e) :
                  \/ Added(e)[i] = e
                  \/ /\ Added(e)[i].key # e.key
                     /\ \E j \in DOMAIN slot : Added(e)[i] = slot[j]
<1> DEFINE t == Added(e)
<1>1. /\ slot \in Seq(Entry) /\ Len(slot) \in Nat /\ Len(slot) <= SlotLimit
      /\ DOMAIN slot = 1..Len(slot) /\ SlotLimit \in Nat \ {0}
      /\ \A i, k \in DOMAIN slot : slot[i].key = slot[k].key => i = k
  BY SlotAssumption DEF FormTypeOK
<1>2. CASE At(e.key) # {}
  <2>1. PICK j \in 1..Len(slot) : slot[j].key = e.key /\ t = [slot EXCEPT ![j] = e]
    BY <1>1, <1>2 DEF Added, At
  <2>2. /\ t \in Seq(Entry) /\ Len(t) = Len(slot)
        /\ \A i \in 1..Len(slot) : t[i] = IF i = j THEN e ELSE slot[i]
    BY <1>1, <2>1, ExceptSeq
  <2> HIDE DEF t
  <2>3. DOMAIN t = 1..Len(slot)
    BY <1>1, <2>2
  <2>4. \A i \in DOMAIN t : t[i].key = slot[i].key /\ (t[i] = e \/ (i # j /\ t[i] = slot[i]))
    BY <2>1, <2>2, <2>3
  <2>5. \A i \in DOMAIN t : t[i] = e \/ (t[i].key # e.key /\ t[i] = slot[i])
    BY <1>1, <2>1, <2>3, <2>4
  <2> QED BY <1>1, <2>2, <2>3, <2>4, <2>5 DEF t
<1>3. CASE At(e.key) = {}
  <2>0. \A i \in DOMAIN slot : slot[i].key # e.key
    BY <1>3 DEF At
  <2>1. ASSUME NEW s \in Seq(Entry), Len(s) < SlotLimit, t = Append(s, e),
               \A i \in DOMAIN s : \E j \in DOMAIN slot : s[i] = slot[j],
               \A i, k \in DOMAIN s : s[i].key = s[k].key => i = k
        PROVE  /\ t \in Seq(Entry) /\ Len(t) <= SlotLimit
               /\ \A i, k \in DOMAIN t : t[i].key = t[k].key => i = k
               /\ \A i \in DOMAIN t :
                      t[i] = e \/ (t[i].key # e.key /\ \E j \in DOMAIN slot : t[i] = slot[j])
    <3>1. /\ t \in Seq(Entry) /\ Len(t) = Len(s) + 1 /\ t[Len(s) + 1] = e /\ Len(s) \in Nat
          /\ \A i \in 1..Len(s) : t[i] = s[i]
      BY <2>1, AppendProperties
    <3> HIDE DEF t
    <3>2. DOMAIN t = 1..Len(s) + 1 /\ DOMAIN s = 1..Len(s) /\ Len(t) <= SlotLimit
      BY <1>1, <2>1, <3>1
    <3>3. \A i \in DOMAIN t : \/ i \in DOMAIN s /\ t[i] = s[i]
                              \/ i = Len(s) + 1 /\ t[i] = e
      BY <3>1, <3>2
    <3>4. \A i \in DOMAIN s : s[i].key # e.key
      BY <2>0, <2>1
    <3> QED BY <2>1, <3>1, <3>2, <3>3, <3>4
  <2>2. CASE Len(slot) < SlotLimit
    <3>1. t = Append(slot, e)
      BY <1>3, <2>2 DEF Added
    <3> HIDE DEF t
    <3>2. \A i \in DOMAIN slot : \E j \in DOMAIN slot : slot[i] = slot[j]
      OBVIOUS
    <3> QED BY <1>1, <2>1, <2>2, <3>1, <3>2 DEF t
  <2>3. CASE ~(Len(slot) < SlotLimit)
    <3> DEFINE s == Tail(slot)
    <3>1. t = Append(s, e)
      BY <1>3, <2>3 DEF Added
    <3> HIDE DEF t
    <3>2. slot # << >> /\ Len(slot) # 0
      BY <1>1, <2>3
    <3>3. /\ s \in Seq(Entry) /\ Len(s) = Len(slot) - 1 /\ \A i \in 1..Len(s) : s[i] = slot[i + 1]
      BY <1>1, <3>2, HeadTailProperties
    <3> HIDE DEF s
    <3>4. DOMAIN s = 1..Len(slot) - 1 /\ Len(s) < SlotLimit
      BY <1>1, <3>2, <3>3
    <3>5. \A i \in DOMAIN s : i + 1 \in DOMAIN slot /\ i \in Nat /\ s[i] = slot[i + 1]
      BY <1>1, <3>3, <3>4
    <3>6. \A i, k \in DOMAIN s : s[i].key = s[k].key => i = k
      <4> SUFFICES ASSUME NEW i \in DOMAIN s, NEW k \in DOMAIN s, s[i].key = s[k].key PROVE i = k
        OBVIOUS
      <4>1. i + 1 = k + 1
        BY <1>1, <3>5
      <4> QED BY <3>5, <4>1
    <3>7. \A i \in DOMAIN s : \E j \in DOMAIN slot : s[i] = slot[j]
      BY <3>5
    <3> QED BY <2>1, <3>1, <3>3, <3>4, <3>6, <3>7 DEF t
  <2> QED BY <2>2, <2>3
<1> QED BY <1>2, <1>3

LEMMA CheckKeeps ==
    ASSUME DeploysInv, FormInv, NEW u \in Users, Check(u)
    PROVE  FormInv'
<1> DEFINE v == form[u]
           k == form[u].target
           e == buildScheduleForm(form[u])
           p == [pc |-> "checked", v |-> v, stamp |-> checks[k] + 1, left |-> Tail(v.nodes)]
<1>0. FormTypeOK /\ SharedOK /\ PageOK(u) /\ form[u] # None
  BY DEF FormInv, Check
<1>1. /\ FormOK(v, DOMAIN tasks) /\ v \in Form /\ k \in Keys /\ v.args \in Args
      /\ v.nodes \in NodeLists /\ v.mode \in {"now", "cron"} /\ v.id \in Nat /\ v.when \in Whens
  BY <1>0 DEF PageOK, FormOK, Form, Modes
<1>2. e \in Entry /\ e.key = k /\ Matches(e, v) /\ (e.kind = "task" => e.when \in Whens)
  BY <1>1 DEF buildScheduleForm, Entry, Matches
<1>3. /\ slot' = Added(e) /\ file' = [file EXCEPT ![k] = v.args]
      /\ checks' = [checks EXCEPT ![k] = @ + 1] /\ post' = [post EXCEPT ![u] = p]
      /\ jobs' = [jobs EXCEPT ![u] = << >>] /\ UNCHANGED <<form, seen, tasks>> /\ DeploysStay
  BY DEF Check, Pickled
<1>4. /\ checks[k] \in Nat /\ file' \in [Keys -> Args \cup {None}] /\ checks' \in [Keys -> Nat]
      /\ file'[k] = v.args /\ checks'[k] = checks[k] + 1
      /\ \A m \in Keys \ {k} : file'[m] = file[m] /\ checks'[m] = checks[m]
  BY <1>0, <1>1, <1>3 DEF FormTypeOK
<1>5. /\ p \in Post /\ p.pc = "checked" /\ p.v = v /\ p.stamp = checks[k] + 1
      /\ p.left = Tail(v.nodes)
  <2>1. Tail(v.nodes) \in Seq(Nodes)
    BY <1>1, NodeListType, HeadTailProperties
  <2> QED BY <1>1, <1>4, <2>1 DEF Post
<1>6. /\ slot' \in Seq(Entry) /\ Len(slot') <= SlotLimit
      /\ \A i, j \in DOMAIN slot' : slot'[i].key = slot'[j].key => i = j
      /\ \A i \in DOMAIN slot' :
             \/ slot'[i] = e
             \/ slot'[i].key # k /\ (\E j \in DOMAIN slot : slot'[i] = slot[j])
  <2> HIDE DEF e
  <2> QED BY <1>0, <1>2, <1>3, AddedProperties
<1> HIDE DEF e, p
<1>7. FormTypeOK'
  BY <1>0, <1>3, <1>4, <1>5, <1>6 DEF FormTypeOK
<1>8. SharedOK'
  BY <1>0, <1>2, <1>3, <1>6 DEF SharedOK
<1>9. /\ post'[u] = p /\ jobs'[u] = << >>
      /\ \A q \in Users \ {u} : /\ form'[q] = form[q] /\ seen'[q] = seen[q]
                                /\ post'[q] = post[q] /\ jobs'[q] = jobs[q]
  BY <1>0, <1>3 DEF FormTypeOK
<1>10. SharedMoves
  <2>1. Len(tasks') >= Len(tasks) /\ \A m \in Keys : checks[m] \in Nat
    BY <1>0, <1>3 DEF FormTypeOK
  <2>2. ASSUME NEW m \in Keys
        PROVE  checks'[m] >= checks[m] /\ file'[m] \in {file[m]} \cup Args
    BY <1>1, <1>4, <2>1
  <2>3. ASSUME NEW m \in Keys, checks'[m] = checks[m]
        PROVE  /\ file'[m] = file[m]
               /\ \A i \in DOMAIN slot' : slot'[i].key = m =>
                      \E j \in DOMAIN slot : slot[j].key = m /\ Popped(slot[j], slot'[i])
    <3>1. m # k
      BY <1>4, <2>3
    <3> QED BY <1>2, <1>4, <1>6, <3>1 DEF Popped
  <2> QED BY <2>1, <2>2, <2>3 DEF SharedMoves
<1>11. PageOK(u)'
  BY <1>0, <1>3 DEF PageOK
<1>12. SubmitOK(u)'
  <2>1. PostOK(u)'
    <3>1. checks[k] + 1 \in 1..checks'[k]
      BY <1>4
    <3>2. V(u)' = v /\ DOMAIN tasks' = DOMAIN tasks
      BY <1>3, <1>5, <1>9 DEF V
    <3> QED BY <1>1, <1>4, <1>5, <1>9, <3>1, <3>2 DEF PostOK
  <2>2. JobsOK(Range(v.nodes), Tail(v.nodes), << >>)
    <3>1. v.nodes \in Seq(Nodes) /\ v.nodes # << >>
      BY <1>1, NodeListType
    <3> QED BY <1>1, <3>1, JobsFirst, JobsTail
  <2>3. VersionsOK(jobs[u])' /\ StartedOK(u)'
    BY <1>5, <1>9 DEF VersionsOK, StartedOK
  <2>4. OwnOK(u)'
    <3>1. V(u)' = v
      BY <1>5, <1>9 DEF V
    <3>2. \A i \in DOMAIN slot' : slot'[i].key = k => Matches(slot'[i], v)
      BY <1>2, <1>6
    <3> QED BY <1>4, <1>9, <3>1, <3>2 DEF OwnOK
  <2>5. JobsOK(Range(V(u).nodes), post[u].left, jobs[u])'
    BY <1>5, <1>9, <2>2 DEF V
  <2> QED BY <2>1, <2>3, <2>4, <2>5 DEF SubmitOK
<1> QED BY <1>3, <1>7, <1>8, <1>9, <1>10, <1>11, <1>12, UserActs
-----------------------------------------------------------------------------
(* A submit moves.                                                            *)

\* The form, the stamp and the others stay; the form may be closed.
Onward(u) ==
    /\ post' \in [Users -> Post] /\ form' \in [Users -> Form \cup {None}]
    /\ \A q \in Users \ {u} : post'[q] = post[q] /\ form'[q] = form[q]
    /\ form'[u] \in {form[u], None}
    /\ post'[u].v = post[u].v /\ post'[u].stamp = post[u].stamp
    /\ post'[u].pc \in {"idle", "started", "fan"}
    /\ post'[u].pc = "fan" => post'[u].left # << >> /\ V(u).mode = "now"

LEMMA StepTo ==
    ASSUME FormTypeOK, NEW u \in Users, NEW pc \in {"idle", "started", "fan"},
           NEW left \in Seq(Nodes), Step(u, pc, left)
    PROVE  /\ post' \in [Users -> Post]
           /\ \A q \in Users \ {u} : post'[q] = post[q]
           /\ post'[u].v = post[u].v /\ post'[u].stamp = post[u].stamp
           /\ post'[u].pc = pc /\ post'[u].left = left
<1> DEFINE p == [post[u] EXCEPT !.pc = pc, !.left = left]
<1>1. post' = [post EXCEPT ![u] = p] /\ post \in [Users -> Post]
  BY DEF Step, FormTypeOK
<1>2. /\ p \in Post /\ p.v = post[u].v /\ p.stamp = post[u].stamp /\ p.pc = pc /\ p.left = left
  BY <1>1 DEF Post
<1> HIDE DEF p
<1> QED BY <1>1, <1>2

LEMMA Starts ==
    ASSUME FormTypeOK, NEW u \in Users, NEW left \in Seq(Nodes),
           Step(u, "started", left), UNCHANGED form
    PROVE  Onward(u) /\ post'[u].pc = "started" /\ post'[u].left = left
BY StepTo DEF Onward, FormTypeOK

LEMMA Turns ==
    ASSUME FormTypeOK, NEW u \in Users, NEW left \in Seq(Nodes),
           GoesOn(u, left) \/ Fails(u, left)
    PROVE  /\ Onward(u) /\ post'[u].pc # "started"
           /\ post'[u].left \in {left, << >>}
<1>0. << >> \in Seq(Nodes) /\ form \in [Users -> Form \cup {None}]
  BY DEF FormTypeOK
<1>1. CASE Step(u, "idle", << >>) /\ (UNCHANGED form \/ form' = [form EXCEPT ![u] = None])
  <2>1. /\ form' \in [Users -> Form \cup {None}] /\ form'[u] \in {form[u], None}
        /\ \A q \in Users \ {u} : form'[q] = form[q]
    BY <1>0, <1>1
  <2> QED BY <1>0, <1>1, <2>1, StepTo DEF Onward
<1>2. CASE V(u).mode = "now" /\ left # << >> /\ Step(u, "fan", left) /\ UNCHANGED form
  BY <1>0, <1>2, StepTo DEF Onward
<1> QED BY <1>1, <1>2 DEF GoesOn, Fails

LEMMA SubmitActs ==
    ASSUME DeploysInv, FormInv, NEW u \in Users, post[u].pc # "idle", Onward(u),
           UNCHANGED seen, DeploysStay, FormTypeOK', SharedOK', SharedMoves,
           \A q \in Users \ {u} : jobs'[q] = jobs[q],
           JobsOK(Range(V(u).nodes), post'[u].left, jobs'[u]), VersionsOK(jobs'[u]),
           Own(u) => \A i \in DOMAIN jobs'[u] : jobs'[u][i].args = V(u).args,
           post'[u].pc = "started" => jobs'[u] # << >> /\ StartedOK(u)'
    PROVE  FormInv'
<1>1. FormTypeOK /\ PageOK(u) /\ SubmitOK(u)
  BY DEF FormInv
<1>2. PageOK(u)'
  BY <1>1, PageKept DEF Onward, SharedMoves
<1>3. SubmitOK(u)'
  BY <1>1, SubmitMoves DEF Onward, V
<1> QED BY <1>2, <1>3, UserActs DEF Onward

\* What run, or an xhr, finds under the key.
LEMMA DataOK ==
    ASSUME FormTypeOK, SharedOK, NEW u \in Users, SubmitOK(u), post[u].pc # "idle"
    PROVE  /\ V(u) \in Form /\ Data(u) \in Entry
           /\ Data(u).kind = "task" => Kept(u) /\ Data(u).when \in Whens
           /\ Own(u) => Data(u).args = V(u).args /\ (Kept(u) => Matches(Data(u), V(u)))
<1>1. /\ V(u) \in Form /\ V(u).target \in Keys /\ file[V(u).target] \in Args
  BY DEF SubmitOK, PostOK, FormOK, Form
<1>2. CASE Kept(u)
  <2>1. PICK i \in At(V(u).target) : Data(u) = slot[i]
    BY <1>2 DEF Data, Kept
  <2>2. i \in DOMAIN slot /\ slot[i].key = V(u).target /\ slot[i] \in Entry
    BY <2>1 DEF At, FormTypeOK
  <2>3. Own(u) => Matches(slot[i], V(u))
    BY <2>2 DEF SubmitOK, OwnOK
  <2> QED BY <1>1, <1>2, <2>1, <2>2, <2>3 DEF SharedOK, Matches
<1>3. CASE ~Kept(u)
  <2>1. Data(u) = [key |-> V(u).target, args |-> file[V(u).target], kind |-> "job", id |-> 0,
                   when |-> None]
    BY <1>3 DEF Data
  <2>2. Data(u) \in Entry /\ Data(u).kind = "job" /\ Data(u).args = file[V(u).target]
    BY <1>1, <2>1 DEF Entry
  <2>3. Own(u) => file[V(u).target] = V(u).args
    BY DEF SubmitOK, OwnOK
  <2> QED BY <1>1, <1>3, <2>2, <2>3
<1> QED BY <1>2, <1>3

LEMMA LatestIsNewest ==
    ASSUME NEW n
    PROVE  Latest(n) = Newest(held[n])
BY DEF Latest, Newest, Present

\* old: the nodes that are left, n among them.
LEMMA ScheduleKeeps ==
    ASSUME DeploysInv, FormInv, NEW u \in Users, post[u].pc # "idle",
           NEW old \in Seq(Nodes), old # << >>,
           JobsOK(Range(V(u).nodes), old, jobs[u]), Schedule(u, Head(old), Tail(old))
    PROVE  FormInv'
<1> DEFINE n == Head(old)
           left == Tail(old)
           target == V(u).target
           job == [node |-> n, args |-> Data(u).args, ran |-> Runs(n, target), at |-> changes[n],
                   recorded |-> 0, same |-> FALSE]
<1>0. /\ FormTypeOK /\ SharedOK /\ SubmitOK(u) /\ held \in Eggs
      /\ changes \in [Nodes -> [Versions -> Nat]] /\ n \in Nodes /\ left \in Seq(Nodes)
      /\ jobs[u] \in Seq(Job) /\ jobs \in [Users -> Seq(Job)]
  BY HeadTailProperties DEF FormInv, FormTypeOK, DeploysInv, DeploysTypeOK
<1>1. /\ UNCHANGED seen /\ ServerStays /\ DeploysStay /\ held' = held /\ changes' = changes
  BY DEF Schedule, DeploysStay, deployVars
<1>2. SharedMoves /\ SharedOK'
  BY <1>0, <1>1, ServerKept DEF SharedOK, ServerStays
<1>3. Onward(u) /\ jobs' \in [Users -> Seq(Job)] => FormTypeOK'
  BY <1>0, <1>1 DEF FormTypeOK, ServerStays, Onward
<1>4. VersionsOK(jobs[u]) /\ (Own(u) => \A i \in DOMAIN jobs[u] : jobs[u][i].args = V(u).args)
  BY <1>0 DEF SubmitOK, OwnOK
<1>5. Own(u) => Data(u).args = V(u).args
  BY <1>0, DataOK
<1>6. CASE UNCHANGED jobs /\ Fails(u, left)
  <2>1. /\ Onward(u) /\ post'[u].pc # "started" /\ post'[u].left \in {left, << >>}
    BY <1>0, <1>6, Turns
  <2>2. JobsOK(Range(V(u).nodes), post'[u].left, jobs'[u])
    BY <1>0, <1>6, <2>1, JobsTail, JobsRest
  <2> QED BY <1>0, <1>1, <1>2, <1>3, <1>4, <1>6, <2>1, <2>2, SubmitActs
<1>7. CASE /\ Runnable(n, Runs(n, target)) /\ jobs' = [jobs EXCEPT ![u] = Append(@, job)]
           /\ \/ Step(u, "started", left) /\ UNCHANGED form
              \/ Fails(u, left)
  <2>1. /\ job \in Job /\ job.node = n /\ job.args = Data(u).args /\ job.at = changes[n]
        /\ job.ran = Runs(n, target) /\ job.same = FALSE
    <3>1. Runs(n, target) \in Versions
      BY <1>7 DEF Runnable, Present
    <3>2. Data(u).args \in Args
      BY <1>0, DataOK DEF Entry
    <3> QED BY <1>0, <3>1, <3>2 DEF Job
  <2> DEFINE ks == Append(jobs[u], job)
  <2>2. jobs'[u] = ks /\ \A q \in Users \ {u} : jobs'[q] = jobs[q]
    BY <1>0, <1>7
  <2> HIDE DEF job
  <2>3. /\ ks \in Seq(Job) /\ ks # << >> /\ Len(ks) = Len(jobs[u]) + 1
        /\ ks[Len(ks)] = job
        /\ \A i \in DOMAIN ks : ks[i] = job \/ (i \in DOMAIN jobs[u] /\ ks[i] = jobs[u][i])
    <3>1. /\ ks \in Seq(Job) /\ ks # << >> /\ Len(ks) = Len(jobs[u]) + 1
          /\ \A i \in 1..Len(jobs[u]) : ks[i] = jobs[u][i]
          /\ ks[Len(jobs[u]) + 1] = job
      <4>1. jobs[u] \in Seq(Job) /\ job \in Job
        BY <1>0, <2>1
      <4> QED BY ONLY <4>1, AppendProperties
    <3> HIDE DEF ks
    <3>2. DOMAIN ks = 1..Len(jobs[u]) + 1 /\ DOMAIN jobs[u] = 1..Len(jobs[u])
          /\ Len(jobs[u]) \in Nat
      BY <1>0, <3>1
    <3> QED BY <3>1, <3>2
  <2>4. JobsOK(Range(V(u).nodes), left, ks)
    BY <1>0, <2>1, JobsOnwards
  <2> HIDE DEF ks
  <2>5. VersionsOK(ks)
    BY <1>4, <2>1, <2>3 DEF VersionsOK
  <2>6. Own(u) => \A i \in DOMAIN ks : ks[i].args = V(u).args
    BY <1>4, <1>5, <2>1, <2>3
  <2>7. jobs' \in [Users -> Seq(Job)]
    BY <1>0, <1>7, <2>2, <2>3 DEF ks
  <2>8. CASE Step(u, "started", left) /\ UNCHANGED form
    <3>1. /\ Onward(u) /\ post'[u].pc = "started" /\ post'[u].left = left
      BY <1>0, <2>8, Starts
    <3>2. StartedOK(u)'
      <4>1. LastJob(u)' = job /\ V(u)' = V(u)
        BY <2>2, <2>3, <3>1 DEF LastJob, Onward, V
      <4>2. \A v \in Versions : changes[n][v] <= changes[n][v]
        BY <1>0
      <4>3. Runs(n, target) = IF target = Default THEN Newest(held[n]) ELSE target
        BY LatestIsNewest DEF Runs
      <4>4. RanOK(job, target, held'[job.node], changes'[job.node])
        BY <1>1, <2>1, <4>2, <4>3 DEF RanOK
      <4> QED BY <4>1, <4>4 DEF StartedOK
    <3> QED BY <1>0, <1>1, <1>2, <1>3, <2>2, <2>3, <2>4, <2>5, <2>6, <2>7, <3>1, <3>2, SubmitActs
  <2>9. CASE Fails(u, left)
    <3>1. /\ Onward(u) /\ post'[u].pc # "started" /\ post'[u].left \in {left, << >>}
      BY <1>0, <2>9, Turns
    <3>2. JobsOK(Range(V(u).nodes), post'[u].left, jobs'[u])
      BY <2>2, <2>4, <3>1, JobsRest
    <3> QED BY <1>0, <1>1, <1>2, <1>3, <2>2, <2>5, <2>6, <2>7, <3>1, <3>2, SubmitActs
  <2> QED BY <1>7, <2>8, <2>9
<1> QED BY <1>6, <1>7 DEF Schedule

LEMMA StartKeeps ==
    ASSUME DeploysInv, FormInv, NEW u \in Users, RunJob(u) \/ Xhr(u)
    PROVE  FormInv'
<1>0. FormTypeOK /\ SubmitOK(u) /\ JobsOK(Range(V(u).nodes), post[u].left, jobs[u])
  BY DEF FormInv, SubmitOK
<1>1. CASE RunJob(u)
  <2> DEFINE s == V(u).nodes
  <2>1. /\ post[u].pc = "checked" /\ post[u].left = Tail(s) /\ jobs[u] = << >>
        /\ s \in NodeLists /\ Ascending(s)
    BY <1>0, <1>1 DEF RunJob, SubmitOK, PostOK, FormOK, Form
  <2>2. s \in Seq(Nodes) /\ s \in Seq(Nat) /\ s # << >>
    BY <2>1, NodeListType
  <2>3. JobsOK(Range(s), s, jobs[u])
    BY <2>1, JobsFirst
  <2>4. Min(Range(s)) = Head(s)
    BY <2>1, <2>2, AscendingMin
  <2>5. Schedule(u, Head(s), Tail(s))
    BY <1>1, <2>1, <2>4 DEF RunJob
  <2> QED BY <2>1, <2>2, <2>3, <2>5, ScheduleKeeps
<1>2. CASE Xhr(u)
  <2>1. post[u].pc = "fan" /\ post[u].left # << >> /\ post[u].left \in Seq(Nodes)
    BY <1>0, <1>2 DEF Xhr, SubmitOK, PostOK, FormTypeOK, Post
  <2> QED BY <1>0, <1>2, <2>1, ScheduleKeeps DEF Xhr
<1> QED BY <1>1, <1>2

LEMMA RecordKeeps ==
    ASSUME DeploysInv, FormInv, NEW u \in Users, Record(u)
    PROVE  FormInv'
<1> DEFINE k == Len(jobs[u])
           job == jobs[u][k]
           n == jobs[u][k].node
           r == Resolved(n, V(u).target)
           s == (changes[n] = job.at)
           new == [job EXCEPT !.recorded = r, !.same = s]
           left == post[u].left
<1>0. /\ FormTypeOK /\ SharedOK /\ SubmitOK(u) /\ PostOK(u) /\ post[u].pc = "started"
      /\ left \in Seq(Nodes) /\ jobs[u] \in Seq(Job) /\ jobs \in [Users -> Seq(Job)]
      /\ JobsOK(Range(V(u).nodes), left, jobs[u]) /\ VersionsOK(jobs[u])
      /\ UNCHANGED seen /\ ServerStays /\ DeploysStay
  BY DEF FormInv, FormTypeOK, Post, SubmitOK, Record
<1>1. jobs[u] # << >> /\ k \in 1..k /\ k \in Nat /\ DOMAIN jobs[u] = 1..k /\ job \in Job
  <2>1. jobs[u] # << >>
    BY <1>0 DEF PostOK
  <2> QED BY <1>0, <2>1
<1>2. n \in Nodes /\ V(u).target \in Keys
  BY <1>0, <1>1 DEF Job, PostOK, FormOK, Form
<1>3. SharedMoves /\ SharedOK'
  BY <1>0, ServerKept DEF SharedOK, ServerStays
<1>4. Onward(u) /\ post'[u].pc # "started" /\ post'[u].left \in {left, << >>}
  BY <1>0, Turns DEF Record
<1>5. jobs' \in [Users -> Seq(Job)] => FormTypeOK'
  BY <1>0, <1>4 DEF FormTypeOK, ServerStays, Onward
<1>6. Own(u) => \A i \in DOMAIN jobs[u] : jobs[u][i].args = V(u).args
  BY <1>0 DEF SubmitOK, OwnOK
<1>7. JobsOK(Range(V(u).nodes), post'[u].left, jobs[u])
  BY <1>0, <1>4, JobsRest
<1>8. CASE UNCHANGED jobs
  BY <1>0, <1>3, <1>4, <1>5, <1>6, <1>7, <1>8, SubmitActs
<1>9. CASE jobs' = [jobs EXCEPT ![u][k].recorded = r, ![u][k].same = s]
  <2> DEFINE ks == [jobs[u] EXCEPT ![k] = new]
  <2>1. jobs' = [jobs EXCEPT ![u] = ks]
    BY <1>0, <1>1, <1>9
  <2>2. r \in Versions \cup {0} /\ s \in BOOLEAN
    BY <1>2, LatestIn DEF Resolved, Keys, Default
  <2>3. /\ new \in Job /\ new.node = job.node /\ new.args = job.args /\ new.ran = job.ran
        /\ new.recorded = r /\ new.same = s
    <3> HIDE DEF r, s
    <3> QED BY <1>1, <2>2 DEF Job
  <2>4. s => r = job.ran
    <3>1. RanOK(job, V(u).target, held[n], changes[n])
      BY <1>0 DEF SubmitOK, StartedOK, LastJob
    <3>2. r = IF V(u).target = Default THEN Newest(held[n]) ELSE V(u).target
      BY LatestIsNewest DEF Resolved
    <3> QED BY <3>1, <3>2 DEF RanOK
  <2> HIDE DEF new, r, s
  <2>5. /\ ks \in Seq(Job) /\ DOMAIN ks = DOMAIN jobs[u]
        /\ \A i \in DOMAIN jobs[u] : ks[i] = IF i = k THEN new ELSE jobs[u][i]
    BY <1>0, <1>1, <2>3
  <2> HIDE DEF ks
  <2>6. /\ jobs'[u] = ks /\ \A q \in Users \ {u} : jobs'[q] = jobs[q]
        /\ jobs' \in [Users -> Seq(Job)]
    BY <1>0, <2>1, <2>5
  <2>7. \A i \in DOMAIN jobs[u] : ks[i].node = jobs[u][i].node /\ ks[i].args = jobs[u][i].args
    BY <2>3, <2>5
  <2>8. JobsOK(Range(V(u).nodes), post'[u].left, ks)
    BY <1>7, <2>5, <2>7, JobsAlike
  <2>9. VersionsOK(ks)
    BY <1>0, <2>3, <2>4, <2>5 DEF VersionsOK
  <2> QED BY <1>0, <1>3, <1>4, <1>5, <1>6, <2>5, <2>6, <2>7, <2>8, <2>9, SubmitActs
<1> QED BY <1>8, <1>9 DEF Record

LEMMA RunTakenKeeps ==
    ASSUME DeploysInv, FormInv, NEW u \in Users, RunTaken(u)
    PROVE  FormInv'
<1>0. /\ FormTypeOK /\ SharedOK /\ SubmitOK(u) /\ post[u].pc # "idle" /\ << >> \in Seq(Nodes)
      /\ UNCHANGED <<seen, jobs>> /\ ServerStays /\ DeploysStay
  BY DEF FormInv, RunTaken
<1>1. SharedMoves /\ SharedOK'
  BY <1>0, ServerKept DEF SharedOK, ServerStays
<1>2. Onward(u) /\ post'[u].pc # "started" /\ post'[u].left = << >>
  BY <1>0, Turns DEF RunTaken
<1>3. FormTypeOK'
  BY <1>0, <1>2 DEF FormTypeOK, ServerStays, Onward
<1>4. JobsOK(Range(V(u).nodes), post'[u].left, jobs[u])
  BY <1>0, <1>2, JobsRest DEF SubmitOK
<1> QED BY <1>0, <1>1, <1>2, <1>3, <1>4, SubmitActs DEF SubmitOK, OwnOK

\* The row that is written: of the entry, with the nodes of the form as they are.
LEMMA RowWritten ==
    ASSUME FormTypeOK, SharedOK, NEW u \in Users, SubmitOK(u), post[u].pc # "idle",
           Data(u).kind = "task"
    PROVE  LET row == [target |-> V(u).target, args |-> Data(u).args,
                       nodes |-> Sorted(Range(V(u).nodes)), when |-> Data(u).when]
           IN  row \in Row /\ row.nodes = V(u).nodes /\ Ascending(row.nodes)
<1>1. /\ V(u).target \in Keys /\ V(u).nodes \in NodeLists /\ Ascending(V(u).nodes)
  BY DEF SubmitOK, PostOK, FormOK, Form
<1>2. Sorted(Range(V(u).nodes)) = V(u).nodes
  BY <1>1, NodeListType, SortedUnique
<1>3. Data(u).args \in Args /\ Data(u).when \in Whens
  BY DataOK DEF Entry
<1> QED BY <1>1, <1>2, <1>3 DEF Row

LEMMA SaveTaskKeeps ==
    ASSUME DeploysInv, FormInv, NEW u \in Users, SaveTask(u)
    PROVE  FormInv'
<1> DEFINE e == Data(u)
           row == [target |-> V(u).target, args |-> Data(u).args,
                   nodes |-> Sorted(Range(V(u).nodes)), when |-> Data(u).when]
<1>0. /\ FormTypeOK /\ SharedOK /\ SubmitOK(u) /\ PostOK(u) /\ OwnOK(u)
      /\ post[u].pc = "checked" /\ e.kind = "task"
      /\ post[u].left \in Seq(Nodes) /\ << >> \in Seq(Nodes)
      /\ UNCHANGED <<seen, jobs, file, checks>> /\ DeploysStay
      /\ slot' = [i \in DOMAIN slot |-> IF slot[i] = e THEN [e EXCEPT !.kind = "taken"]
                                        ELSE slot[i]]
  BY DEF FormInv, SubmitOK, SaveTask, FormTypeOK, Post
<1>1. row \in Row /\ Ascending(row.nodes)
  BY <1>0, RowWritten
<1>2. e \in Entry
  BY <1>0, DataOK
<1> HIDE DEF e, row
<1>3. \A i \in DOMAIN slot : /\ Popped(slot[i], slot'[i]) /\ slot'[i] \in Entry
                             /\ slot'[i].key = slot[i].key /\ slot'[i].when = slot[i].when
                             /\ slot'[i].kind = "task" => slot[i].kind = "task"
  <2>1. \A i \in DOMAIN slot : slot[i] \in Entry
    BY <1>0 DEF FormTypeOK
  <2>2. /\ [e EXCEPT !.kind = "taken"] \in Entry
        /\ [e EXCEPT !.kind = "taken"].key = e.key /\ [e EXCEPT !.kind = "taken"].when = e.when
        /\ [e EXCEPT !.kind = "taken"].kind = "taken"
    BY <1>2 DEF Entry
  <2> QED BY <1>0, <2>1, <2>2 DEF Popped
<1>4. /\ DOMAIN slot' = DOMAIN slot /\ slot' \in Seq(Entry) /\ Len(slot') <= SlotLimit
      /\ \A i, j \in DOMAIN slot' : slot'[i].key = slot'[j].key => i = j
  <2>1. DOMAIN slot = 1..Len(slot) /\ Len(slot) \in Nat /\ DOMAIN slot' = 1..Len(slot)
    BY <1>0 DEF FormTypeOK
  <2>2. slot' \in Seq(Entry) /\ Len(slot') = Len(slot)
    <3>1. slot' \in [1..Len(slot) -> Entry]
      BY <1>0, <1>3, <2>1
    <3> QED BY <2>1, <3>1
  <2>3. Len(slot) <= SlotLimit /\ \A i, j \in DOMAIN slot : slot[i].key = slot[j].key => i = j
    BY <1>0 DEF FormTypeOK
  <2>4. DOMAIN slot' = DOMAIN slot /\ Len(slot') <= SlotLimit
    BY <2>1, <2>2, <2>3
  <2> QED BY <1>3, <2>2, <2>3, <2>4
<1>5. ASSUME Len(tasks') >= Len(tasks), tasks' \in Seq(Row \cup {None}),
             \A i \in DOMAIN tasks' : RowOK(tasks'[i]),
             NEW left \in Seq(Nodes), GoesOn(u, left) \/ Fails(u, left),
             left \in {post[u].left, << >>}
      PROVE  FormInv'
  <2>1. Onward(u) /\ post'[u].pc # "started" /\ post'[u].left \in {left, << >>}
    BY <1>0, <1>5, Turns
  <2>2. FormTypeOK'
    BY <1>0, <1>4, <1>5, <2>1 DEF FormTypeOK, Onward
  <2>3. SharedOK'
    BY <1>0, <1>3, <1>4, <1>5 DEF SharedOK
  <2>4. SharedMoves
    <3>1. \A k \in Keys : checks[k] \in Nat
      BY <1>0 DEF FormTypeOK
    <3>2. \A k \in Keys : checks'[k] >= checks[k]
      BY <1>0, <3>1
    <3>3. ASSUME NEW k \in Keys, NEW i \in DOMAIN slot', slot'[i].key = k
          PROVE  \E j \in DOMAIN slot : slot[j].key = k /\ Popped(slot[j], slot'[i])
      BY <1>3, <1>4, <3>3
    <3> QED BY <1>0, <1>5, <3>2, <3>3 DEF SharedMoves
  <2>5. JobsOK(Range(V(u).nodes), post'[u].left, jobs[u])
    BY <1>0, <1>5, <2>1, JobsRest DEF SubmitOK
  <2> QED BY <1>0, <2>1, <2>2, <2>3, <2>4, <2>5, SubmitActs DEF SubmitOK, OwnOK
<1>6. /\ tasks \in Seq(Row \cup {None}) /\ Len(tasks) \in Nat /\ DOMAIN tasks = 1..Len(tasks)
      /\ \A i \in DOMAIN tasks : RowOK(tasks[i])
  BY <1>0 DEF FormTypeOK, SharedOK
<1>7. RowOK(row)
  BY <1>1 DEF RowOK
<1>8. CASE tasks' = Append(tasks, row) /\ GoesOn(u, post[u].left)
  <2>1. /\ tasks' \in Seq(Row \cup {None}) /\ Len(tasks') = Len(tasks) + 1
        /\ \A i \in 1..Len(tasks) : tasks'[i] = tasks[i]
        /\ tasks'[Len(tasks) + 1] = row
    BY <1>1, <1>6, <1>8, AppendProperties
  <2>2. DOMAIN tasks' = 1..Len(tasks) + 1 /\ Len(tasks') >= Len(tasks)
    BY <1>6, <2>1
  <2>3. \A i \in DOMAIN tasks' : RowOK(tasks'[i])
    <3>1. \A i \in DOMAIN tasks' : i \in DOMAIN tasks \/ i = Len(tasks) + 1
      BY <1>6, <2>2
    <3> QED BY <1>6, <1>7, <2>1, <3>1
  <2> QED BY <1>0, <1>5, <1>8, <2>1, <2>2, <2>3
<1>9. CASE tasks' = [tasks EXCEPT ![e.id] = row] /\ GoesOn(u, post[u].left)
  <2>1. /\ tasks' \in Seq(Row \cup {None}) /\ Len(tasks') = Len(tasks)
        /\ DOMAIN tasks' = DOMAIN tasks
        /\ \A i \in DOMAIN tasks : tasks'[i] \in {tasks[i], row}
    <3>1. CASE e.id \in DOMAIN tasks
      BY <1>1, <1>6, <1>9, <3>1
    <3>2. CASE e.id \notin DOMAIN tasks
      <4>1. tasks' = tasks
        BY <1>6, <1>9, <3>2
      <4> QED BY <1>6, <4>1
    <3> QED BY <3>1, <3>2
  <2> QED BY <1>0, <1>5, <1>6, <1>7, <1>9, <2>1
<1>10. CASE UNCHANGED tasks /\ Fails(u, << >>)
  <2>1. Len(tasks') >= Len(tasks)
    BY <1>6, <1>10
  <2> QED BY <1>0, <1>5, <1>6, <1>10, <2>1
<1> QED BY <1>8, <1>9, <1>10 DEF SaveTask, e, row

\* A step that no submit makes: the tasks grow, and everything of the users stays.
LEMMA NobodyActs ==
    ASSUME DeploysInv, DeploysInv', EggsMove, FormInv, FormTypeOK', SharedOK', SharedMoves,
           UNCHANGED <<form, seen, post, jobs>>
    PROVE  FormInv'
<1>1. /\ DeploysTypeOK /\ changes' \in [Nodes -> [Versions -> Nat]] /\ held' \in Eggs
  BY DEF DeploysInv, DeploysTypeOK
<1>2. ASSUME NEW q \in Users PROVE PageOK(q)' /\ SubmitOK(q)'
  <2>1. FormTypeOK /\ PageOK(q) /\ SubmitOK(q)
    BY DEF FormInv
  <2>2. PageOK(q)'
    BY <2>1, PageKept DEF SharedMoves
  <2> QED BY <1>1, <2>1, <2>2, SubmitKept
<1> QED BY <1>2 DEF FormInv

LEMMA DeleteTaskKeeps ==
    ASSUME DeploysInv, DeploysInv', FormInv, NEW id \in DOMAIN tasks, DeleteTask(id)
    PROVE  FormInv'
<1>1. /\ FormTypeOK /\ SharedOK /\ EggsMove
      /\ tasks' = [tasks EXCEPT ![id] = None]
      /\ UNCHANGED <<form, seen, post, jobs, slot, file, checks>>
  BY DEF FormInv, DeleteTask, EggsMove, DeploysStay, deployVars
<1>2. /\ tasks \in Seq(Row \cup {None}) /\ Len(tasks) \in Nat /\ tasks' \in Seq(Row \cup {None})
      /\ Len(tasks') = Len(tasks) /\ DOMAIN tasks' = DOMAIN tasks
      /\ \A i \in DOMAIN tasks : tasks'[i] \in {tasks[i], None}
  BY <1>1 DEF FormTypeOK
<1>3. FormTypeOK'
  BY <1>1, <1>2 DEF FormTypeOK
<1>4. SharedOK'
  BY <1>1, <1>2 DEF SharedOK, RowOK
<1>5. SharedMoves
  <2>1. \A k \in Keys : checks'[k] >= checks[k]
    BY <1>1 DEF FormTypeOK
  <2> QED BY <1>1, <1>2, <2>1 DEF SharedMoves, Popped
<1> QED BY <1>1, <1>3, <1>4, <1>5, NobodyActs

LEMMA FormStep == DeploysInv /\ DeploysInv' /\ FormInv /\ [Next]_vars => FormInv'
<1> SUFFICES ASSUME DeploysInv, DeploysInv', FormInv, [Next]_vars PROVE FormInv'
  OBVIOUS
<1>1. ASSUME NEW u \in Users, NEW n \in Nodes,
             \/ \E target \in Keys, mode \in Modes : OpenBlank(u, n, target, mode)
             \/ \E id \in DOMAIN tasks : OpenTask(u, id, n)
      PROVE  FormInv'
  BY <1>1, OpenKeeps
<1>2. ASSUME NEW u \in Users,
             \/ \E n \in Nodes : PickNode(u, n) \/ FollowNode(u, n)
             \/ \E target \in Keys : SetTarget(u, target)
             \/ \E a \in Args : SetSettings(u, a) \/ SetArgs(u, a)
             \/ \E w \in Whens : SetWhen(u, w)
             \/ \E mode \in Modes : SetMode(u, mode)
      PROVE  FormInv'
  BY <1>2, FieldKeeps
<1>3. ASSUME NEW u \in Users,
             \/ ReadTasks(u) \/ Leave(u) \/ Check(u) \/ RunJob(u) \/ Xhr(u) \/ Record(u)
             \/ SaveTask(u) \/ RunTaken(u)
      PROVE  FormInv'
  BY <1>3, ReadKeeps, CheckKeeps, StartKeeps, RecordKeeps, SaveTaskKeeps, RunTakenKeeps
<1>4. ASSUME NEW id \in DOMAIN tasks, DeleteTask(id) PROVE FormInv'
  BY <1>4, DeleteTaskKeeps
<1>5. ASSUME EggsMove, UNCHANGED formVars PROVE FormInv'
  <2>1. /\ FormTypeOK /\ SharedOK /\ UNCHANGED <<form, seen, post, jobs>>
        /\ UNCHANGED <<slot, file, checks, tasks>>
    BY <1>5 DEF FormInv, formVars
  <2>2. FormTypeOK' /\ SharedOK'
    BY <2>1 DEF FormTypeOK, SharedOK
  <2>3. SharedMoves
    BY <2>1, ServerKept DEF ServerStays
  <2> QED BY <1>5, <2>1, <2>2, <2>3, NobodyActs
<1>6. CASE NextDeploys /\ UNCHANGED formVars
  BY <1>5, <1>6, EggsStep
<1>7. CASE UNCHANGED vars
  BY <1>5, <1>7 DEF vars, deployVars, EggsMove
<1>8. CASE NextForm
  BY <1>1, <1>2, <1>3, <1>4, <1>8 DEF NextForm
<1> QED BY <1>6, <1>7, <1>8 DEF Next

LEMMA FormInitially == Init => FormInv
<1> SUFFICES ASSUME Init PROVE FormInv
  OBVIOUS
<1>1. /\ form = [u \in Users |-> None] /\ seen = [u \in Users |-> None]
      /\ post = [u \in Users |-> NoPost] /\ jobs = [u \in Users |-> << >>]
      /\ slot = << >> /\ file = [k \in Keys |-> None]
      /\ checks = [k \in Keys |-> 0] /\ tasks = << >>
  BY DEF Init, InitForm
<1>2. NoPost \in Post /\ SlotLimit >= 0
  BY SlotAssumption DEF NoPost, Post
<1>3. FormTypeOK
  BY <1>1, <1>2 DEF FormTypeOK
<1>4. SharedOK
  BY <1>1 DEF SharedOK
<1>5. ASSUME NEW u \in Users PROVE PageOK(u) /\ SubmitOK(u)
  <2>1. form[u] = None /\ seen[u] = None /\ post[u].pc = "idle" /\ post[u].left = << >>
        /\ jobs[u] = << >>
    BY <1>1 DEF NoPost
  <2>2. DOMAIN << >> = {} /\ Range(<< >>) = {}
    BY DEF Range
  <2>3. PageOK(u)
    BY <2>1 DEF PageOK
  <2>4. JobsOK(Range(V(u).nodes), post[u].left, jobs[u]) /\ VersionsOK(jobs[u])
    BY <2>1, <2>2 DEF JobsOK, VersionsOK
  <2>5. PostOK(u) /\ StartedOK(u) /\ OwnOK(u)
    BY <2>1 DEF PostOK, StartedOK, OwnOK
  <2> QED BY <2>3, <2>4, <2>5 DEF SubmitOK
<1> QED BY <1>3, <1>4, <1>5 DEF FormInv

LEMMA FormAlways == Spec => []FormInv
BY FormInitially, FormStep, DeploysAlways, PTL DEF Spec
-----------------------------------------------------------------------------
(* The theorems.                                                              *)

\* The types of the deploys, the forms, the submits and what the server keeps, for any
\* number of users, nodes, versions and requests.
THEOREM TypeCorrect == Spec => []TypeOK
<1>1. DeploysInv /\ FormInv => TypeOK
  BY DEF DeploysInv, FormInv, TypeOK
<1> QED BY <1>1, DeploysAlways, FormAlways, PTL

\* EachNodeOnce for any lists of nodes: run starts on the head of the form's ascending list,
\* because it takes the smallest, and the page goes on behind it.
THEOREM EachNodeOnceCorrect == Spec => []EachNodeOnce
<1>1. FormInv => EachNodeOnce
  BY DEF FormInv, SubmitOK, JobsOK, EachNodeOnce
<1> QED BY <1>1, FormAlways, PTL

\* RecordedVersionRan for any deploys and deletions in between.
THEOREM RecordedVersionRanCorrect == Spec => []RecordedVersionRan
<1>1. FormInv => RecordedVersionRan
  BY DEF FormInv, SubmitOK, VersionsOK, RecordedVersionRan
<1> QED BY <1>1, FormAlways, PTL

\* A submit on its way is moved by its own run, xhr and answers alone.
LEMMA MovesBy ==
    ASSUME FormInv, [Next]_vars, NEW u \in Users, Moves(u)
    PROVE  RunJob(u) \/ Xhr(u) \/ Record(u) \/ SaveTask(u) \/ RunTaken(u)
<1>0. post \in [Users -> Post] /\ post'[u] # post[u] /\ post[u].pc # "idle"
  BY DEF FormInv, FormTypeOK, Moves
<1>1. ASSUME NEW q \in Users,
             \/ \E n \in Nodes :
                    \/ \E target \in Keys, mode \in Modes : OpenBlank(q, n, target, mode)
                    \/ \E id \in DOMAIN tasks : OpenTask(q, id, n)
                    \/ PickNode(q, n) \/ FollowNode(q, n)
             \/ \E target \in Keys : SetTarget(q, target)
             \/ \E a \in Args : SetSettings(q, a) \/ SetArgs(q, a)
             \/ \E w \in Whens : SetWhen(q, w)
             \/ \E mode \in Modes : SetMode(q, mode)
             \/ ReadTasks(q) \/ Leave(q)
      PROVE  FALSE
  <2>1. post' = post
    BY <1>1 DEF OpenBlank, OpenTask, Opened, PickNode, FollowNode, SetTarget, SetSettings,
                SetArgs, SetWhen, SetMode, Typed, ReadTasks, Leave
  <2> QED BY <1>0, <2>1
<1>2. ASSUME NEW q \in Users, Check(q) PROVE FALSE
  <2>1. q # u /\ post'[u] = post[u]
    BY <1>0, <1>2 DEF Check, Idle
  <2> QED BY <1>0, <2>1
<1>3. ASSUME NEW q \in Users, NEW pc, NEW left, Step(q, pc, left) PROVE q = u
  BY <1>0, <1>3 DEF Step
<1>4. ASSUME NEW q \in Users, NEW left, GoesOn(q, left) \/ Fails(q, left) PROVE q = u
  BY <1>3, <1>4 DEF GoesOn, Fails
<1>5. ASSUME NEW q \in Users, RunJob(q) \/ Xhr(q) PROVE q = u
  BY <1>3, <1>4, <1>5 DEF RunJob, Xhr, Schedule
<1>6. ASSUME NEW q \in Users, Record(q) \/ SaveTask(q) \/ RunTaken(q) PROVE q = u
  BY <1>4, <1>6 DEF Record, SaveTask, RunTaken
<1>7. ~(NextDeploys /\ UNCHANGED formVars) /\ ~UNCHANGED vars
  BY <1>0 DEF vars, formVars
<1>8. ASSUME NEW id, DeleteTask(id) PROVE FALSE
  BY <1>0, <1>8 DEF DeleteTask
<1>9. CASE NextForm
  BY <1>1, <1>2, <1>5, <1>6, <1>8, <1>9 DEF NextForm
<1> QED BY <1>7, <1>9 DEF Next

LEMMA ScheduledArgs ==
    ASSUME FormInv, NEW u \in Users, NEW n, NEW left, Schedule(u, n, left)
    PROVE  /\ tasks' = tasks
           /\ jobs'[u] # jobs[u] => Last(jobs'[u]).args = Data(u).args
<1>0. jobs \in [Users -> Seq(Job)] /\ jobs[u] \in Seq(Job)
  BY DEF FormInv, FormTypeOK
<1>1. tasks' = tasks
  BY DEF Schedule, ServerStays
<1>2. ASSUME NEW job, job.args = Data(u).args, jobs' = [jobs EXCEPT ![u] = Append(@, job)]
      PROVE  Last(jobs'[u]).args = Data(u).args
  <2>1. jobs'[u] = Append(jobs[u], job)
    BY <1>0, <1>2
  <2>2. Len(Append(jobs[u], job)) = Len(jobs[u]) + 1 /\ Append(jobs[u], job)[Len(jobs[u]) + 1] = job
    BY <1>0
  <2> QED BY <1>2, <2>1, <2>2 DEF Last
<1>3. \/ UNCHANGED jobs
      \/ \E job : job.args = Data(u).args /\ jobs' = [jobs EXCEPT ![u] = Append(@, job)]
  <2> DEFINE v == Runs(n, V(u).target)
             job == [node |-> n, args |-> Data(u).args, ran |-> v, at |-> changes[n],
                     recorded |-> 0, same |-> FALSE]
  <2>1. job.args = Data(u).args
    OBVIOUS
  <2>2. UNCHANGED jobs \/ jobs' = [jobs EXCEPT ![u] = Append(@, job)]
    BY DEF Schedule
  <2> HIDE DEF job
  <2> QED BY <2>1, <2>2
<1> QED BY <1>1, <1>2, <1>3

LEMMA RecordedArgs ==
    ASSUME FormInv, NEW u \in Users, Record(u)
    PROVE  /\ tasks' = tasks /\ Len(jobs'[u]) = Len(jobs[u])
           /\ Last(jobs'[u]).args = Last(jobs[u]).args
<1>0. /\ jobs \in [Users -> Seq(Job)] /\ jobs[u] \in Seq(Job) /\ jobs[u] # << >>
      /\ tasks' = tasks
  BY DEF FormInv, FormTypeOK, SubmitOK, PostOK, Record, ServerStays
<1>1. CASE UNCHANGED jobs
  BY <1>0, <1>1
<1>2. ASSUME NEW r, NEW s,
             jobs' = [jobs EXCEPT ![u][Len(jobs[u])].recorded = r, ![u][Len(jobs[u])].same = s]
      PROVE  /\ Len(jobs'[u]) = Len(jobs[u])
             /\ Last(jobs'[u]).args = Last(jobs[u]).args
  <2> DEFINE k == Len(jobs[u])
             new == [jobs[u][k] EXCEPT !.recorded = r, !.same = s]
             js == [jobs[u] EXCEPT ![k] = new]
  <2>1. k \in 1..k /\ jobs[u][k] \in Job
    BY <1>0
  <2>2. new.args = jobs[u][k].args
    BY <2>1 DEF Job
  <2>3. jobs'[u] = js
    BY <1>0, <1>2, <2>1
  <2> HIDE DEF new
  <2>4. Len(js) = k /\ js[k] = new
    BY <1>0, <2>1
  <2> QED BY <2>2, <2>3, <2>4 DEF Last
<1>3. \/ UNCHANGED jobs
      \/ \E r, s : jobs' = [jobs EXCEPT ![u][Len(jobs[u])].recorded = r,
                                        ![u][Len(jobs[u])].same = s]
  BY DEF Record
<1> QED BY <1>0, <1>1, <1>2, <1>3

LEMMA TasksSaved ==
    ASSUME FormInv, NEW u \in Users, SaveTask(u), Own(u), tasks' # tasks
    PROVE  /\ jobs' = jobs /\ V(u).mode = "cron"
           /\ \E row \in Row :
                  /\ \A c \in Columns : row[c] = V(u)[c]
                  /\ row.args = V(u).args /\ row.when = V(u).when
                  /\ \/ V(u).id = 0 /\ tasks' = Append(tasks, row)
                     \/ V(u).id # 0 /\ tasks' = [tasks EXCEPT ![V(u).id] = row]
<1> DEFINE row == [target |-> V(u).target, args |-> Data(u).args,
                   nodes |-> Sorted(Range(V(u).nodes)), when |-> Data(u).when]
<1>1. FormTypeOK /\ SharedOK /\ SubmitOK(u) /\ post[u].pc = "checked" /\ Data(u).kind = "task"
  BY DEF FormInv, SaveTask
<1>2. V(u) \in Form /\ Matches(Data(u), V(u))
  BY <1>1, DataOK
<1>3. V(u).mode = "cron" /\ Data(u).args = V(u).args /\ Data(u).id = V(u).id
      /\ Data(u).when = V(u).when
  BY <1>1, <1>2 DEF Matches, Form, Modes
<1>4. row \in Row /\ row.nodes = V(u).nodes
  BY <1>1, RowWritten
<1>5. /\ row.target = V(u).target /\ row.args = V(u).args /\ row.when = V(u).when
  BY <1>3
<1>6. /\ jobs' = jobs
      /\ \/ V(u).id = 0 /\ tasks' = Append(tasks, row)
         \/ V(u).id # 0 /\ tasks' = [tasks EXCEPT ![V(u).id] = row]
  BY <1>3 DEF SaveTask
<1> HIDE DEF row
<1>7. \A c \in Columns : row[c] = V(u)[c]
  BY <1>4, <1>5 DEF Columns
<1> QED BY <1>3, <1>4, <1>5, <1>6, <1>7

\* RunsWhatWasChecked for any number of users, versions and slots.
THEOREM RunsWhatWasCheckedCorrect == Spec => RunsWhatWasChecked
<1> DEFINE Kind(u) ==
        Moves(u) /\ Own(u) =>
            /\ jobs'[u] # jobs[u] => Last(jobs'[u]).args = V(u).args
            /\ Kept(u) /\ Len(jobs'[u]) > Len(jobs[u]) => V(u).mode = "now"
            /\ tasks' # tasks => V(u).mode = "cron"
            /\ \A id \in DOMAIN tasks' :
                   (id \in DOMAIN tasks => tasks'[id] # tasks[id]) =>
                       tasks'[id].args = V(u).args /\ tasks'[id].when = V(u).when
<1>1. FormInv /\ [Next]_vars => [\A u \in Users : Kind(u)]_vars
  <2> SUFFICES ASSUME FormInv, [Next]_vars, NEW u \in Users, Moves(u), Own(u)
               PROVE  /\ jobs'[u] # jobs[u] => Last(jobs'[u]).args = V(u).args
                      /\ Kept(u) /\ Len(jobs'[u]) > Len(jobs[u]) => V(u).mode = "now"
                      /\ tasks' # tasks => V(u).mode = "cron"
                      /\ \A id \in DOMAIN tasks' :
                             (id \in DOMAIN tasks => tasks'[id] # tasks[id]) =>
                                 tasks'[id].args = V(u).args /\ tasks'[id].when = V(u).when
    OBVIOUS
  <2>0. /\ FormTypeOK /\ SharedOK /\ SubmitOK(u) /\ post[u].pc # "idle"
        /\ jobs[u] \in Seq(Job) /\ Len(jobs[u]) \in Nat
    BY DEF FormInv, Moves, FormTypeOK
  <2>1. /\ Data(u).args = V(u).args /\ (Kept(u) => Matches(Data(u), V(u)))
        /\ V(u).mode \in {"now", "cron"}
    BY <2>0, DataOK DEF Form, Modes
  <2>2. CASE RunJob(u)
    <3>1. tasks' = tasks /\ (jobs'[u] # jobs[u] => Last(jobs'[u]).args = Data(u).args)
      BY <2>2, ScheduledArgs DEF RunJob
    <3>2. Data(u).kind = "job"
      BY <2>2 DEF RunJob
    <3> QED BY <2>1, <3>1, <3>2 DEF Matches
  <2>3. CASE Xhr(u)
    <3>1. tasks' = tasks /\ (jobs'[u] # jobs[u] => Last(jobs'[u]).args = Data(u).args)
      BY <2>3, ScheduledArgs DEF Xhr
    <3>2. V(u).mode = "now"
      BY <2>0, <2>3 DEF Xhr, SubmitOK, PostOK
    <3> QED BY <2>1, <3>1, <3>2
  <2>4. CASE Record(u)
    <3>1. /\ tasks' = tasks /\ Len(jobs'[u]) = Len(jobs[u])
          /\ Last(jobs'[u]).args = Last(jobs[u]).args
      BY <2>4, RecordedArgs
    <3>2. Last(jobs[u]).args = V(u).args
      <4>1. jobs[u] # << >>
        BY <2>0, <2>4 DEF Record, SubmitOK, PostOK
      <4>2. Len(jobs[u]) \in DOMAIN jobs[u]
        BY <2>0, <4>1
      <4> QED BY <2>0, <4>2 DEF SubmitOK, OwnOK, Last
    <3> QED BY <2>0, <3>1, <3>2
  <2>5. CASE SaveTask(u)
    <3>1. CASE tasks' = tasks
      <4>1. jobs' = jobs
        BY <2>5 DEF SaveTask
      <4> QED BY <2>0, <3>1, <4>1
    <3>2. CASE tasks' # tasks
      <4>1. PICK row \in Row :
                /\ row.args = V(u).args /\ row.when = V(u).when
                /\ \/ tasks' = Append(tasks, row)
                   \/ tasks' = [tasks EXCEPT ![V(u).id] = row]
        BY <2>5, <3>2, TasksSaved
      <4>2. jobs' = jobs /\ V(u).mode = "cron"
        BY <2>5, <3>2, TasksSaved
      <4>3. tasks \in Seq(Row \cup {None})
        BY <2>0 DEF FormTypeOK
      <4>4. \A id \in DOMAIN tasks' :
                (id \in DOMAIN tasks => tasks'[id] # tasks[id]) => tasks'[id] = row
        <5>1. CASE tasks' = [tasks EXCEPT ![V(u).id] = row]
          BY <4>3, <5>1
        <5>2. CASE tasks' = Append(tasks, row)
          <6>1. /\ Len(tasks) \in Nat /\ DOMAIN tasks = 1..Len(tasks)
                /\ DOMAIN tasks' = 1..Len(tasks) + 1 /\ tasks'[Len(tasks) + 1] = row
                /\ \A i \in 1..Len(tasks) : tasks'[i] = tasks[i]
            BY <4>3, <5>2
          <6> QED BY <6>1
        <5> QED BY <4>1, <5>1, <5>2
      <4> QED BY <2>0, <4>1, <4>2, <4>4
    <3> QED BY <3>1, <3>2
  <2>6. CASE RunTaken(u)
    <3>1. tasks' = tasks /\ jobs' = jobs
      BY <2>6 DEF RunTaken, ServerStays
    <3> QED BY <2>0, <3>1
  <2> QED BY <2>2, <2>3, <2>4, <2>5, <2>6, MovesBy
<1> QED BY <1>1, FormAlways, PTL DEF Spec, RunsWhatWasChecked

\* EditKeepsRest for any task, any columns that were touched and any users in between.
THEOREM EditKeepsRestCorrect == Spec => EditKeepsRest
<1> DEFINE Rest(u) ==
        Moves(u) /\ Own(u) /\ V(u).base # None /\ tasks' # tasks =>
            /\ Len(tasks') = Len(tasks)
            /\ \A id \in DOMAIN tasks : id # V(u).id => tasks'[id] = tasks[id]
            /\ tasks[V(u).id] = V(u).base =>
                   \A c \in Columns \ V(u).touched : tasks'[V(u).id][c] = V(u).base[c]
<1>1. FormInv /\ [Next]_vars => [\A u \in Users : Rest(u)]_vars
  <2> SUFFICES ASSUME FormInv, [Next]_vars, NEW u \in Users, Moves(u), Own(u),
                      V(u).base # None, tasks' # tasks
               PROVE  /\ Len(tasks') = Len(tasks)
                      /\ \A id \in DOMAIN tasks : id # V(u).id => tasks'[id] = tasks[id]
                      /\ \A c \in Columns \ V(u).touched : tasks'[V(u).id][c] = V(u).base[c]
    OBVIOUS
  <2>0. /\ tasks \in Seq(Row \cup {None}) /\ FormOK(V(u), DOMAIN tasks)
    BY DEF FormInv, FormTypeOK, SubmitOK, PostOK, Moves
  <2>1. /\ V(u).id \in DOMAIN tasks /\ V(u).id # 0
        /\ \A c \in Columns \ V(u).touched : V(u)[c] = V(u).base[c]
    BY <2>0 DEF FormOK
  <2>2. SaveTask(u)
    <3>1. ~RunJob(u) /\ ~Xhr(u) /\ ~Record(u) /\ ~RunTaken(u)
      BY DEF RunJob, Xhr, Schedule, Record, RunTaken, ServerStays
    <3> QED BY <3>1, MovesBy
  <2>3. PICK row \in Row : /\ \A c \in Columns : row[c] = V(u)[c]
                           /\ tasks' = [tasks EXCEPT ![V(u).id] = row]
    BY <2>1, <2>2, TasksSaved
  <2>4. /\ Len(tasks') = Len(tasks) /\ tasks'[V(u).id] = row
        /\ \A id \in DOMAIN tasks : id # V(u).id => tasks'[id] = tasks[id]
    BY <2>0, <2>1, <2>3
  <2> QED BY <2>1, <2>3, <2>4
<1> QED BY <1>1, FormAlways, PTL DEF Spec, EditKeepsRest
=============================================================================
