---------------------------- MODULE ScheduleForm ----------------------------
(***************************************************************************)
(* The Run Spider page (pages/schedule.tsx, components/schedule/): a form  *)
(* is filled, or filled from a timer task that is edited, and submitted.   *)
(* The page sends check, which leaves the request in a slot and a pickle   *)
(* under a key of project, version and spider; run, which takes it from    *)
(* there and starts a job on the first node or saves a timer task; and for *)
(* a job one xhr for each further node (routers/schedule.py).              *)
(*                                                                         *)
(* Users submit the forms of one spider, so that the key is the version,   *)
(* while the versions change underneath (Deploys).                         *)
(***************************************************************************)
EXTENDS Deploys, Sequences, SequencesExt

CONSTANTS
    Users,        \* browsers with the page open
    Args,         \* settings and arguments of a form
    Whens,        \* its cron fields, name and action
    SlotLimit     \* entries the slot keeps (ten)
ASSUME SlotAssumption == SlotLimit \in Nat \ {0}
ASSUME FormAssumption == IsFiniteSet(Nodes) /\ Args # {} /\ Whens # {}

VARIABLES
    form,     \* the form on the screen
    seen,     \* the timer tasks as last read
    post,     \* the submit on its way, or the last one
    jobs,     \* the jobs that submit started
    slot,     \* checked requests, oldest first
    file,     \* the pickles
    checks,   \* how often each key was checked
    tasks     \* the timer tasks ever made, in order, None for a deleted one

formVars == <<form, seen, post, jobs, slot, file, checks, tasks>>
vars == <<deployVars, limits, counts, formVars>>

Default == 0                      \* DEFAULT_LATEST_VERSION
Keys == Versions \cup {Default}
Modes == {"now", "cron"}
Columns == {"target", "args", "nodes", "when"}
NodeLists == {s \in UNION {[1..k -> Nodes] : k \in 1..Cardinality(Nodes)} : IsInjective(s)}
Ids == Nat \ {0}
Row == [target : Keys, args : Args, nodes : NodeLists, when : Whens]
\* edit: opened for a task; id, base: that task, and its row as it was shown, 0 and None
\* when the list had none.
Form == [target : Keys, args : Args, nodes : NodeLists, mode : Modes, when : Whens,
         edit : BOOLEAN, id : Nat, base : Row \cup {None}, touched : SUBSET Columns]
\* checked: run is next; started: a job runs and is not recorded; fan: the next xhr.
Post == [pc : {"idle", "checked", "started", "fan"}, v : Form \cup {None}, stamp : Nat,
         left : Seq(Nodes)]
NoPost == [pc |-> "idle", v |-> None, stamp |-> 0, left |-> << >>]
\* ran, recorded: the version, 0 while unknown; same: the versions of the node have not
\* changed between the two.
Job == [node : Nodes, args : Args, ran : Versions, at : [Versions -> Nat],
        recorded : Versions \cup {0}, same : BOOLEAN]
\* job: no task data; task: with the task data, id 0 for a new one; taken: run has popped it.
Entry == [key : Keys, args : Args, kind : {"job", "task", "taken"}, id : Nat,
          when : Whens \cup {None}]

InitForm ==
    /\ form = [u \in Users |-> None] /\ seen = [u \in Users |-> None]
    /\ post = [u \in Users |-> NoPost] /\ jobs = [u \in Users |-> << >>]
    /\ slot = << >> /\ file = [k \in Keys |-> None]
    /\ checks = [k \in Keys |-> 0] /\ tasks = << >>
-----------------------------------------------------------------------------
(* The page.                                                                  *)

Idle(u) == post[u].pc = "idle"
DeploysStay == UNCHANGED <<deployVars, limits>>
ServerStays == UNCHANGED <<slot, file, checks, tasks>>

Blank(n, target, mode, edit) ==
    [target |-> target, args |-> CHOOSE a \in Args : TRUE, nodes |-> <<n>>, mode |-> mode,
     when |-> CHOOSE w \in Whens : TRUE, edit |-> edit, id |-> 0, base |-> None, touched |-> {}]
\* Mutant: the first node stands for all of them.
TaskToFormOfOneNode(row, id) ==
    [target |-> row.target, args |-> row.args, nodes |-> <<row.nodes[1]>>, mode |-> "cron",
     when |-> row.when, edit |-> TRUE, id |-> id, base |-> row, touched |-> {}]
TaskToForm(row, id) ==
    [target |-> row.target, args |-> row.args, nodes |-> row.nodes, mode |-> "cron",
     when |-> row.when, edit |-> TRUE, id |-> id, base |-> row, touched |-> {}]

\* No form is opened or filled that the bounds do not let submit.
MaySubmit == counts["submits"] < limits["submits"]
Opened(u, f) ==
    /\ MaySubmit /\ Idle(u) /\ form[u] = None
    /\ form' = [form EXCEPT ![u] = f]
    /\ UNCHANGED <<seen, post, jobs>> /\ ServerStays /\ DeploysStay

\* What a link or the picker can name: the latest version, or one that some node listed.
Named(target) ==
    target # Default => \E n \in Nodes : held[n][target] # None \/ changes[n][target] > 0

\* /schedule, with a target and a mode from the link that was followed.
OpenBlank(u, n, target, mode) ==
    Named(target) /\ Opened(u, Blank(n, target, mode, FALSE)) /\ UNCHANGED counts

\* /schedule?taskId=: from the cached list, whatever its age. A task that is missing there
\* leaves a blank form under the title of an edit.
OpenTask(u, id, n) ==
    /\ seen[u] # None /\ id \in 1..Len(tasks)
    /\ Opened(u, IF id <= Len(seen[u]) /\ seen[u][id] # None
                 THEN TaskToForm(seen[u][id], id) ELSE Blank(n, Default, "now", TRUE))
    /\ UNCHANGED counts

\* The list arrives, for this page or for the tasks page; an open form keeps its values.
ReadTasks(u) ==
    /\ Once("reads")
    /\ seen' = [seen EXCEPT ![u] = tasks]
    /\ UNCHANGED <<form, post, jobs>> /\ ServerStays /\ DeploysStay

Leave(u) ==
    /\ Idle(u) /\ form[u] # None
    /\ form' = [form EXCEPT ![u] = None]
    /\ UNCHANGED <<seen, post, jobs, counts>> /\ ServerStays /\ DeploysStay

Typed(u, f) ==
    /\ MaySubmit /\ Idle(u) /\ form[u] # None
    /\ Once("edits")
    /\ form' = [form EXCEPT ![u] = f]
    /\ UNCHANGED <<seen, post, jobs>> /\ ServerStays /\ DeploysStay
\* On a new form only the nodes are ever asked for it.
Touch(u, column) ==
    form[u].touched \cup (IF form[u].edit \/ column = "nodes" THEN {column} ELSE {})
SetTarget(u, target) ==
    /\ Named(target)
    /\ Typed(u, [form[u] EXCEPT !.target = target, !.touched = Touch(u, "target")])
\* A Scrapy setting and a spider argument are rows of two cards, and one column of a task.
SetSettings(u, a) ==
    Typed(u, [form[u] EXCEPT !.args = a, !.touched = Touch(u, "args")])
SetArgs(u, a) ==
    Typed(u, [form[u] EXCEPT !.args = a, !.touched = Touch(u, "args")])
SetWhen(u, w) ==
    /\ form[u] # None /\ form[u].mode = "cron"
    /\ Typed(u, [form[u] EXCEPT !.when = w, !.touched = Touch(u, "when")])
\* Run now, or cron.
SetMode(u, mode) == Typed(u, [form[u] EXCEPT !.mode = mode])

Ascending(s) == \A i, k \in DOMAIN s : i < k => s[i] < s[k]
Sorted(S) == CHOOSE s \in [1..Cardinality(S) -> S] : Ascending(s)
\* Mutant: a node is added at the end.
ToggledUnsorted(s, n) ==
    IF n \in Range(s) THEN RemoveAt(s, CHOOSE i \in DOMAIN s : s[i] = n) ELSE Append(s, n)
Toggled(s, n) ==
    IF n \in Range(s) THEN RemoveAt(s, CHOOSE i \in DOMAIN s : s[i] = n)
    ELSE Sorted(Range(s) \cup {n})
PickNode(u, n) ==
    /\ form[u] # None
    /\ Toggled(form[u].nodes, n) # << >>      \* min(1): such a form is not submitted
    /\ Typed(u, [form[u] EXCEPT !.nodes = Toggled(@, n), !.touched = Touch(u, "nodes")])
\* The topbar changes its node: a new form follows as long as its nodes are untouched.
FollowNode(u, n) ==
    /\ form[u] # None
    /\ ~form[u].edit /\ "nodes" \notin form[u].touched
    /\ Typed(u, [form[u] EXCEPT !.nodes = <<n>>])
-----------------------------------------------------------------------------
(* schedule_check.                                                            *)

At(key) == {i \in DOMAIN slot : slot[i].key = key}
\* Mutant: nothing is evicted.
AddedForever(entry) ==
    IF At(entry.key) # {} THEN [slot EXCEPT ![CHOOSE i \in At(entry.key) : TRUE] = entry]
    ELSE Append(slot, entry)
\* Mutant: a key that is known is not stored again.
AddedOnce(entry) ==
    IF At(entry.key) # {} THEN slot
    ELSE IF Len(slot) < SlotLimit THEN Append(slot, entry) ELSE Append(Tail(slot), entry)
\* An entry of a known key keeps its place; beyond the limit the oldest one goes.
Added(entry) ==
    IF At(entry.key) # {} THEN [slot EXCEPT ![CHOOSE i \in At(entry.key) : TRUE] = entry]
    ELSE IF Len(slot) < SlotLimit THEN Append(slot, entry) ELSE Append(Tail(slot), entry)
\* The request without the task data.
Pickled(key, a) == [file EXCEPT ![key] = a]

\* The body of a check, as the server keeps it: task data only in cron mode.
buildScheduleForm(v) ==
    LET cron == v.mode = "cron"
    IN  [key |-> v.target, args |-> v.args, kind |-> IF cron THEN "task" ELSE "job",
         id |-> IF cron THEN v.id ELSE 0, when |-> IF cron THEN v.when ELSE None]

Check(u) ==
    /\ Idle(u) /\ form[u] # None
    /\ Once("submits")
    /\ LET v == form[u]
       IN  /\ slot' = Added(buildScheduleForm(v))
           /\ file' = Pickled(v.target, v.args)
           /\ checks' = [checks EXCEPT ![v.target] = @ + 1]
           /\ post' = [post EXCEPT ![u] =
                  [pc |-> "checked", v |-> v, stamp |-> checks[v.target] + 1,
                   left |-> Tail(v.nodes)]]
    /\ jobs' = [jobs EXCEPT ![u] = << >>]
    /\ UNCHANGED <<form, seen, tasks>> /\ DeploysStay
-----------------------------------------------------------------------------
(* schedule_run and schedule_xhr.                                             *)

V(u) == post[u].v
Kept(u) == At(V(u).target) # {}
\* The entry of the slot, or what the pickle says, whoever checked it last.
Data(u) ==
    IF Kept(u) THEN slot[CHOOSE i \in At(V(u).target) : TRUE]
    ELSE [key |-> V(u).target, args |-> file[V(u).target], kind |-> "job", id |-> 0,
          when |-> None]

Step(u, pc, left) == post' = [post EXCEPT ![u].pc = pc, ![u].left = left]
\* run has succeeded, or one xhr is through: the next xhr, or on to the jobs or tasks page.
GoesOn(u, left) ==
    IF V(u).mode = "now" /\ left # << >>
    THEN Step(u, "fan", left) /\ UNCHANGED form
    ELSE Step(u, "idle", << >>) /\ form' = [form EXCEPT ![u] = None]
\* A failed run ends the submit, and the form stays; a failed xhr does not.
Fails(u, left) ==
    IF post[u].pc = "checked" THEN Step(u, "idle", << >>) /\ UNCHANGED form
    ELSE GoesOn(u, left)

Runs(n, target) == IF target = Default THEN Latest(n) ELSE target
Runnable(n, v) == v \in Present(n) /\ held[n][v].good
\* Mutant: the first version listed is the latest.
ResolvedFirst(n, target) ==
    IF target = Default /\ Present(n) # {} THEN Min(Present(n)) ELSE target
\* resolve_version, as the versions are now.
Resolved(n, target) == IF target = Default THEN Latest(n) ELSE target

\* Scrapyd is asked to start the job on one node, and starts it if the version runs; its
\* answer may be lost.
Schedule(u, n, left) ==
    LET v == Runs(n, V(u).target)
        job == [node |-> n, args |-> Data(u).args, ran |-> v, at |-> changes[n],
                recorded |-> 0, same |-> FALSE]
    IN  /\ \/ /\ Runnable(n, v)
              /\ jobs' = [jobs EXCEPT ![u] = Append(@, job)]
              /\ \/ Step(u, "started", left) /\ UNCHANGED <<form, counts>>
                 \/ Once("losses") /\ Fails(u, left)
           \/ ~Runnable(n, v) /\ Fails(u, left) /\ UNCHANGED <<jobs, counts>>
        /\ UNCHANGED seen /\ ServerStays /\ DeploysStay

\* checked_amount is sent, so that the first node is the smallest one.
RunJob(u) ==
    /\ post[u].pc = "checked" /\ Data(u).kind = "job"
    /\ Schedule(u, Min(Range(V(u).nodes)), post[u].left)
\* The page asks for the further nodes of its own list, in its order.
Xhr(u) ==
    /\ post[u].pc = "fan"
    /\ Schedule(u, Head(post[u].left), Tail(post[u].left))

\* The version is resolved and recorded, unless the node does not list its versions, and
\* the answer goes back.
Record(u) ==
    /\ post[u].pc = "started"
    /\ LET k == Len(jobs[u])
           n == jobs[u][k].node
       IN  \/ /\ jobs' = [jobs EXCEPT ![u][k].recorded = Resolved(n, V(u).target),
                                       ![u][k].same = changes[n] = jobs[u][k].at]
              /\ UNCHANGED counts
           \/ V(u).target = Default /\ Once("losses") /\ UNCHANGED jobs
    /\ GoesOn(u, post[u].left)
    /\ UNCHANGED seen /\ ServerStays /\ DeploysStay

\* A timer task is written, and its data popped from the entry that others share. An
\* update of a deleted task fails.
SaveTask(u) ==
    LET entry == Data(u)
        row == [target |-> V(u).target, args |-> entry.args,
                nodes |-> Sorted(Range(V(u).nodes)), when |-> entry.when]
        made == entry.id = 0
    IN  /\ post[u].pc = "checked" /\ entry.kind = "task"
        /\ slot' = [i \in DOMAIN slot |-> IF slot[i] = entry
                                          THEN [entry EXCEPT !.kind = "taken"] ELSE slot[i]]
        /\ \/ made /\ tasks' = Append(tasks, row) /\ GoesOn(u, post[u].left)
           \/ /\ ~made /\ tasks[entry.id] # None
              /\ tasks' = [tasks EXCEPT ![entry.id] = row]
              /\ GoesOn(u, post[u].left)
           \/ /\ ~made /\ tasks[entry.id] = None
              /\ Fails(u, << >>) /\ UNCHANGED tasks
        /\ UNCHANGED <<seen, jobs, file, checks, counts>> /\ DeploysStay

\* Another submit of the same key has popped the task data: KeyError.
RunTaken(u) ==
    /\ post[u].pc = "checked" /\ Data(u).kind = "taken"
    /\ Fails(u, << >>)
    /\ UNCHANGED <<seen, jobs, counts>> /\ ServerStays /\ DeploysStay

\* The tasks page deletes a task.
DeleteTask(id) ==
    /\ Once("deletes")
    /\ tasks[id] # None /\ tasks' = [tasks EXCEPT ![id] = None]
    /\ UNCHANGED <<form, seen, post, jobs, slot, file, checks>> /\ DeploysStay
-----------------------------------------------------------------------------
Init == InitDeploys /\ InitForm
NextForm ==
    \/ \E u \in Users :
           \/ \E n \in Nodes :
                  \/ \E target \in Keys, mode \in Modes : OpenBlank(u, n, target, mode)
                  \/ \E id \in DOMAIN tasks : OpenTask(u, id, n)
                  \/ PickNode(u, n) \/ FollowNode(u, n)
           \/ \E target \in Keys : SetTarget(u, target)
           \/ \E a \in Args : SetSettings(u, a) \/ SetArgs(u, a)
           \/ \E w \in Whens : SetWhen(u, w)
           \/ \E mode \in Modes : SetMode(u, mode)
           \/ ReadTasks(u) \/ Leave(u) \/ Check(u) \/ RunJob(u) \/ Xhr(u) \/ Record(u)
           \/ SaveTask(u) \/ RunTaken(u)
    \/ \E id \in DOMAIN tasks : DeleteTask(id)
Next == NextForm \/ (NextDeploys /\ UNCHANGED formVars)
Spec == Init /\ [][Next]_vars
-----------------------------------------------------------------------------
FormTypeOK ==
    /\ form \in [Users -> Form \cup {None}]
    /\ seen \in [Users -> {None} \cup Seq(Row \cup {None})]
    /\ post \in [Users -> Post] /\ jobs \in [Users -> Seq(Job)]
    /\ slot \in Seq(Entry) /\ Len(slot) <= SlotLimit
    /\ \A i, k \in DOMAIN slot : slot[i].key = slot[k].key => i = k
    /\ file \in [Keys -> Args \cup {None}] /\ checks \in [Keys -> Nat]
    /\ tasks \in Seq(Row \cup {None})
TypeOK == DeploysTypeOK /\ FormTypeOK

\* Nobody has checked the same key since this submit did.
Own(u) == checks[V(u).target] = post[u].stamp
\* The submit is on its way and this step is of it.
Moves(u) == post[u].pc # "idle" /\ post'[u] # post[u]

\* What runs is what was checked: unless another submit of the same version came in between,
\* a job gets the arguments of this form, also from the pickle, and as long as the slot keeps
\* the entry a form in cron mode starts no job and one in now mode writes no task.
RunsWhatWasChecked ==
    [][\A u \in Users : Moves(u) /\ Own(u) =>
           /\ jobs'[u] # jobs[u] => Last(jobs'[u]).args = V(u).args
           /\ Kept(u) /\ Len(jobs'[u]) > Len(jobs[u]) => V(u).mode = "now"
           /\ tasks' # tasks => V(u).mode = "cron"
           /\ \A id \in DOMAIN tasks' :
                  (id \in DOMAIN tasks => tasks'[id] # tasks[id]) =>
                      tasks'[id].args = V(u).args /\ tasks'[id].when = V(u).when]_vars

\* However its nodes were picked, a submit starts at most one job on each of its nodes, and
\* none elsewhere: run takes the smallest number, the page goes on behind its first node.
EachNodeOnce ==
    \A u \in Users : V(u) # None =>
        /\ \A i, k \in DOMAIN jobs[u] : jobs[u][i].node = jobs[u][k].node => i = k
        /\ \A i \in DOMAIN jobs[u] : jobs[u][i].node \in Range(V(u).nodes)

\* Saving an edited task writes that task and no other, and keeps the columns of the form
\* that were not touched, if the task is still as it was shown and nobody checked the same
\* version in between (taskToForm, buildScheduleForm, check and run together).
EditKeepsRest ==
    [][\A u \in Users : Moves(u) /\ Own(u) /\ V(u).base # None /\ tasks' # tasks =>
           /\ Len(tasks') = Len(tasks)
           /\ \A id \in DOMAIN tasks : id # V(u).id => tasks'[id] = tasks[id]
           /\ tasks[V(u).id] = V(u).base =>
                  \A c \in Columns \ V(u).touched : tasks'[V(u).id][c] = V(u).base[c]]_vars

\* The version recorded for a job is the one that ran, unless the versions of its node
\* changed before it was resolved (services/job_versions.py).
RecordedVersionRan ==
    \A u \in Users : \A i \in DOMAIN jobs[u] :
        jobs[u][i].same => jobs[u][i].recorded = jobs[u][i].ran
=============================================================================
