----------------------------- MODULE TimerTasks -----------------------------
(***************************************************************************)
(* Timer tasks: the Task rows, the APScheduler jobs that fire them, the    *)
(* executor threads that post each task to its Scrapyd nodes, and the      *)
(* TaskResult / TaskJobResult rows that record what happened               *)
(* (services/tasks.py, routers/tasks.py, the task part of                  *)
(* routers/schedule.py, scheduler.py).                                     *)
(*                                                                         *)
(* Four kinds of actor interleave: the HTTP handlers (a Session is one     *)
(* deletion in flight; its steps are split where the handler awaits the    *)
(* database), the APScheduler thread, the executor threads, and the        *)
(* environment (Scrapyd's answers, a process crash, a restart).            *)
(*                                                                         *)
(* The database is PostgreSQL: ids come from a sequence and are never      *)
(* reused, each commit is atomic, and the foreign keys of models.py are    *)
(* enforced when a transaction commits.                                    *)
(***************************************************************************)
EXTENDS Naturals, FiniteSets

CONSTANTS
    Task,          \* ids of Task rows, handed out at most once each
    NoTask,        \* the task of an executor that has not been fired
    Run,           \* firings; a firing owns the TaskResult row it inserts
    Session,       \* deletion requests that can be in flight together
    MaxNode,       \* nodes are numbered 1..MaxNode in every configuration
    Selections,    \* the selected_nodes users submit
    ServerCounts,  \* the lengths the node list is given
    KeepLimit,     \* KEEP_TASK_RESULT_LIMIT; 0 disables the limit
    MaxInstances   \* the jobs' max_instances

ASSUME TaskAssumption == NoTask \notin Task
ASSUME RunAssumption == IsFiniteSet(Run)
ASSUME NumbersAssumption ==
    MaxNode \in Nat \ {0} /\ KeepLimit \in Nat /\ MaxInstances \in Nat \ {0}
\* A request with no node checked fails before the row is made.
ASSUME ChoicesAssumption ==
    /\ Selections \subseteq (SUBSET (1..MaxNode)) \ {{}}
    /\ ServerCounts \subseteq 0..MaxNode

VARIABLES
    alive,      \* the server process is up
    resumed,    \* the timer-task scheduler is running, not paused
    servers,    \* how many Scrapyd nodes the live settings list
    task,       \* Task table: "unborn", "live" or "deleted" for each id
    selected,   \* Task.selected_nodes
    adding,     \* tasks inserted by a request that has not called add_job yet
    staged,     \* selected_nodes of an update flushed but not committed, or {}
    rejobbed,   \* tasks whose staged update has already replaced the job
    job,        \* APScheduler job store: "none", "armed" or "paused"
    run,        \* the executor thread of each firing
    result,     \* TaskResult table: the firings whose row exists
    count,      \* TaskResult.pass_count and fail_count
    stamp,      \* TaskResult.execute_time, as the order of insertion
    rows,       \* TaskJobResult table
    accepted,   \* how often each node's Scrapyd accepted the firing's jobid
    session     \* deletion requests

vars == <<alive, resumed, servers, task, selected, adding, staged, rejobbed, job,
          run, result, count, stamp, rows, accepted, session>>

taskVars == <<task, selected, adding, staged, rejobbed>>
tableVars == <<result, count, stamp, rows>>
processVars == <<alive, resumed, servers>>

Node == 1..MaxNode
Row == [run: Run, node: Node, ok: BOOLEAN, round: {1, 2}]

RunState ==
  {e \in [pc: {"idle", "read", "orphan", "create", "node", "check", "insert",
               "done",
               "lost"},        \* ended or died with its counts not written
          task: Task \cup {NoTask},
          sel: SUBSET Node,        \* self.selected_nodes
          srv: 0..MaxNode,         \* len(self.servers)
          round: {1, 2},           \* index + 1 of the loop in main()
          todo: SUBSET Node,       \* what is left of list(nodes)
          retry: SUBSET Node,      \* self.nodes_to_retry
          node: 0..MaxNode,        \* the node whose result is being stored
          ok: BOOLEAN,             \* and whether its status is 'ok'
          pass: Nat, fail: Nat] :
     /\ e.pc # "idle" => e.task \in Task
     /\ e.pc \in {"check", "insert"} => e.node \in Node}

SessionState == [op: {"idle", "task", "commit", "limit", "age", "days"},
                 tasks: SUBSET Task, results: SUBSET Run, rows: SUBSET Row]

FreshRun == [pc |-> "idle", task |-> NoTask, sel |-> {}, srv |-> 0, round |-> 1,
             todo |-> {}, retry |-> {}, node |-> 0, ok |-> FALSE,
             pass |-> 0, fail |-> 0]
FreeSession == [op |-> "idle", tasks |-> {}, results |-> {}, rows |-> {}]
NoCount == [pass |-> 0, fail |-> 0]

RowsOf(R) == {x \in rows : x.run \in R}
ResultsOf(t) == {r \in result : run[r].task = t}

\* Mutant: the cleanup without its condition.
CountedAll(r) == TRUE

\* The condition of _delete_outdated: ~(pass_count == 0 and fail_count == 0).
Counted(r) == ~(count[r].pass = 0 /\ count[r].fail = 0)

\* Executor threads of t that APScheduler counts against max_instances.
Running(r) == run[r].pc \notin {"idle", "done", "lost"}
Instances(t) == {r \in Run : Running(r) /\ run[r].task = t}

Init ==
    /\ alive = TRUE
    /\ resumed \in BOOLEAN
    /\ servers \in ServerCounts
    /\ task = [t \in Task |-> "unborn"]
    /\ selected = [t \in Task |-> {}]
    /\ adding = {}
    /\ staged = [t \in Task |-> {}]
    /\ rejobbed = {}
    /\ job = [t \in Task |-> "none"]
    /\ run = [r \in Run |-> FreshRun]
    /\ result = {}
    /\ count = [r \in Run |-> NoCount]
    /\ stamp = [r \in Run |-> 0]
    /\ rows = {}
    /\ accepted = [r \in Run |-> [n \in Node |-> 0]]
    /\ session = [s \in Session |-> FreeSession]

-----------------------------------------------------------------------------
(* Adding and updating a task: schedule_run.                               *)

\* A new Task row is committed before the job is added.
InsertTask(t, nodes) ==
    /\ alive
    /\ task[t] = "unborn"
    /\ task' = [task EXCEPT ![t] = "live"]
    /\ selected' = [selected EXCEPT ![t] = nodes]
    /\ adding' = adding \cup {t}
    /\ UNCHANGED <<processVars, staged, rejobbed, job, run, tableVars, accepted,
                   session>>

\* scheduler.add_job; an exception leaves the row without a new job.
AddJob(t) ==
    /\ alive
    /\ t \in adding
    /\ adding' = adding \ {t}
    /\ \E j \in {"armed", "paused", job[t]} : job' = [job EXCEPT ![t] = j]
    /\ UNCHANGED <<processVars, task, selected, staged, rejobbed, run, tableVars,
                   accepted, session>>

\* The update is flushed: its transaction holds the row until it ends.
StageUpdate(t, nodes) ==
    /\ alive
    /\ task[t] = "live"
    /\ staged[t] = {}
    /\ staged' = [staged EXCEPT ![t] = nodes]
    /\ UNCHANGED <<processVars, task, selected, adding, rejobbed, job, run,
                   tableVars, accepted, session>>

\* add_job(replace_existing=True) takes effect before the commit...
ReplaceJob(t) ==
    /\ alive
    /\ staged[t] # {} /\ t \notin rejobbed
    /\ rejobbed' = rejobbed \cup {t}
    /\ \E j \in {"armed", "paused"} : job' = [job EXCEPT ![t] = j]
    /\ UNCHANGED <<processVars, task, selected, adding, staged, run, tableVars,
                   accepted, session>>

\* ...and an exception in it rolls the update back.
RollbackUpdate(t) ==
    /\ alive
    /\ staged[t] # {} /\ t \notin rejobbed
    /\ staged' = [staged EXCEPT ![t] = {}]
    /\ UNCHANGED <<processVars, task, selected, adding, rejobbed, job, run,
                   tableVars, accepted, session>>

\* commit; 'add_fire' then sets next_run_time, which arms a job that is left.
CommitUpdate(t) ==
    /\ alive
    /\ t \in rejobbed
    /\ rejobbed' = rejobbed \ {t}
    /\ selected' = [selected EXCEPT ![t] = staged[t]]
    /\ staged' = [staged EXCEPT ![t] = {}]
    /\ \/ UNCHANGED job
       \/ job[t] # "none" /\ job' = [job EXCEPT ![t] = "armed"]
    /\ UNCHANGED <<processVars, task, adding, run, tableVars, accepted, session>>

-----------------------------------------------------------------------------
(* Actions on a task's job: _xhr_dispatch.  'fire' moves next_run_time of  *)
(* an armed job to now, which this untimed model cannot tell apart.        *)

SetJob(t, j) ==
    /\ alive
    /\ job[t] # "none"
    /\ job' = [job EXCEPT ![t] = j]
    /\ UNCHANGED <<processVars, taskVars, run, tableVars, accepted, session>>

PauseJob(t) == SetJob(t, "paused")
\* A trigger with no fire time left makes resume_job remove the job.
ResumeJob(t) == SetJob(t, "armed") \/ SetJob(t, "none")
RemoveJob(t) == SetJob(t, "none")

\* 'disable' and 'enable'.
ToggleScheduler ==
    /\ alive
    /\ resumed' = ~resumed
    /\ UNCHANGED <<alive, servers, taskVars, job, run, tableVars, accepted, session>>

-----------------------------------------------------------------------------
(* Deletions: the 'delete' action of _xhr_dispatch.                        *)

\* delete task: the job goes first (unless ignore_apscheduler_job=True).
BeginDeleteTask(s, t) ==
    /\ alive
    /\ session[s].op = "idle"
    /\ task[t] # "unborn"
    /\ \E j \in {"none", job[t]} : job' = [job EXCEPT ![t] = j]
    /\ session' = [session EXCEPT ![s] = [FreeSession EXCEPT !.op = "task",
                                                             !.tasks = {t}]]
    /\ UNCHANGED <<processVars, taskVars, run, tableVars, accepted>>

\* session.delete(task) loads the rows its cascades will delete.
LoadTask(s) ==
    /\ alive
    /\ session[s].op = "task"
    /\ \E t \in session[s].tasks :
         session' = [session EXCEPT ![s] =
           IF task[t] = "live"
           THEN [op |-> "commit", tasks |-> {t}, results |-> ResultsOf(t),
                 rows |-> RowsOf(ResultsOf(t))]
           ELSE FreeSession]
    /\ UNCHANGED <<processVars, taskVars, job, run, tableVars, accepted>>

\* delete task_result.
LoadResult(s, r) ==
    /\ alive
    /\ session[s].op = "idle"
    /\ r \in result
    /\ session' = [session EXCEPT ![s] =
         [op |-> "commit", tasks |-> {}, results |-> {r}, rows |-> RowsOf({r})]]
    /\ UNCHANGED <<processVars, taskVars, job, run, tableVars, accepted>>

\* _delete_outdated, first pass: what lies beyond the newest KeepLimit.
BeyondLimit ==
    {r \in result : /\ Counted(r)
                    /\ Cardinality({q \in result : Counted(q) /\ stamp[q] > stamp[r]})
                         >= KeepLimit}
LoadBeyondLimit(s) ==
    /\ alive
    /\ session[s].op = "idle"
    /\ session' = [session EXCEPT ![s] =
         IF KeepLimit = 0
         THEN [FreeSession EXCEPT !.op = "age"]
         ELSE [op |-> "limit", tasks |-> {}, results |-> BeyondLimit,
               rows |-> RowsOf(BeyondLimit)]]
    /\ UNCHANGED <<processVars, taskVars, job, run, tableVars, accepted>>

\* Second pass: what is older than the chosen age (cutoff 0: nothing is).
TooOld(cutoff) == {r \in result : Counted(r) /\ stamp[r] <= cutoff}
LoadTooOld(s, cutoff) ==
    /\ alive
    /\ session[s].op = "age"
    /\ session' = [session EXCEPT ![s] =
         [op |-> "days", tasks |-> {}, results |-> TooOld(cutoff),
          rows |-> RowsOf(TooOld(cutoff))]]
    /\ UNCHANGED <<processVars, taskVars, job, run, tableVars, accepted>>

\* Mutant: a database that does not enforce foreign keys.
KeysIgnored(s) == TRUE

\* Deleting what session s loaded would leave no row with a missing parent.
KeysHold(s) ==
    /\ \A t \in session[s].tasks : ResultsOf(t) \subseteq session[s].results
    /\ RowsOf(session[s].results) \subseteq session[s].rows

\* commit: all of it, or a foreign key error and none of it.
CommitDelete(s) ==
    /\ alive
    /\ session[s].op \in {"commit", "limit", "days"}
    /\ \A t \in session[s].tasks : staged[t] = {}
    /\ \/ /\ KeysHold(s)
          /\ task' = [t \in Task |->
                        IF t \in session[s].tasks THEN "deleted" ELSE task[t]]
          /\ result' = result \ session[s].results
          /\ rows' = rows \ session[s].rows
          /\ session' = [session EXCEPT ![s] =
               IF session[s].op = "limit" THEN [FreeSession EXCEPT !.op = "age"]
               ELSE FreeSession]
       \/ /\ ~KeysHold(s)
          /\ session' = [session EXCEPT ![s] = FreeSession]
          /\ UNCHANGED <<task, result, rows>>
    /\ UNCHANGED <<processVars, selected, adding, staged, rejobbed, job, run, count,
                   stamp, accepted>>

-----------------------------------------------------------------------------
(* APScheduler's thread: a due job is handed to an executor thread unless  *)
(* max_instances of it are running, and its next fire time is computed; a  *)
(* trigger with none left removes the job.                                 *)

\* Bound: a firing of an existing task leaves one Run for orphan jobs, which
\* give theirs back.
SlotFor(t, r) ==
    /\ run[r].pc = "idle"
    /\ task[t] = "live" => \E q \in Run \ {r} : run[q].pc = "idle"

Fire(t, r) ==
    /\ alive /\ resumed
    /\ job[t] = "armed"
    /\ Cardinality(Instances(t)) < MaxInstances
    /\ SlotFor(t, r)
    /\ run' = [run EXCEPT ![r] = [FreshRun EXCEPT !.pc = "read", !.task = t]]
    /\ \E j \in {"armed", "none"} : job' = [job EXCEPT ![t] = j]
    /\ UNCHANGED <<processVars, taskVars, tableVars, accepted, session>>

SkipLastFiring(t) ==
    /\ alive /\ resumed
    /\ job[t] = "armed"
    /\ Cardinality(Instances(t)) >= MaxInstances
    /\ job' = [job EXCEPT ![t] = "none"]
    /\ UNCHANGED <<processVars, taskVars, run, tableVars, accepted, session>>

-----------------------------------------------------------------------------
(* An executor thread: execute_task and TaskExecutor.                      *)

\* execute_task reads the row and snapshots it, with the node list.
ReadTask(r) ==
    /\ alive
    /\ run[r].pc = "read"
    /\ LET t == run[r].task IN
         IF task[t] = "live"
         THEN run' = [run EXCEPT ![r].pc = "create", ![r].sel = selected[t],
                                 ![r].srv = servers]
         ELSE run' = [run EXCEPT ![r].pc = "orphan"]
    /\ UNCHANGED <<processVars, taskVars, job, tableVars, accepted, session>>

\* Mutant: the job of a task that does not exist is not removed.
KeepOrphanJob(r) ==
    /\ alive
    /\ run[r].pc = "orphan"
    /\ run' = [run EXCEPT ![r] = FreshRun]
    /\ UNCHANGED <<processVars, taskVars, job, tableVars, accepted, session>>

\* The task does not exist: its job is removed, if it is still there.
DropOrphanJob(r) ==
    /\ alive
    /\ run[r].pc = "orphan"
    /\ job' = [job EXCEPT ![run[r].task] = "none"]
    /\ run' = [run EXCEPT ![r] = FreshRun]
    /\ UNCHANGED <<processVars, taskVars, tableVars, accepted, session>>

\* main() inserts the TaskResult row, or dies on its foreign key.
CreateResult(r) ==
    /\ alive
    /\ run[r].pc = "create"
    /\ \/ /\ task[run[r].task] = "live"
          /\ result' = result \cup {r}
          /\ stamp' = [stamp EXCEPT ![r] = 1 + Cardinality({q \in Run : stamp[q] > 0})]
          /\ run' = [run EXCEPT ![r].pc = "node", ![r].todo = run[r].sel]
       \/ /\ task[run[r].task] # "live"
          /\ run' = [run EXCEPT ![r] = FreshRun]
          /\ UNCHANGED <<result, stamp>>
    /\ UNCHANGED <<processVars, taskVars, job, count, rows, accepted, session>>

\* Mutant: the loop waits for a node that is not configured.
NextConfigured(r, n) ==
    /\ alive
    /\ run[r].pc = "node"
    /\ n \in run[r].todo
    /\ n <= run[r].srv

\* The loop takes the nodes in the order of selected_nodes, which ascends.
NextNode(r, n) ==
    /\ alive
    /\ run[r].pc = "node"
    /\ n \in run[r].todo
    /\ \A m \in run[r].todo : n <= m

\* _schedule returned a result: it is counted and is to be stored.
Settle(r, n, isOk) ==
    run' = [run EXCEPT ![r].pc = "check", ![r].todo = @ \ {n},
                       ![r].node = n, ![r].ok = isOk,
                       ![r].pass = IF isOk THEN @ + 1 ELSE @,
                       ![r].fail = IF isOk THEN @ ELSE @ + 1]

\* _schedule failed for the first time on n: it returned {}.
Defer(r, n) ==
    run' = [run EXCEPT ![r].todo = @ \ {n}, ![r].retry = @ \cup {n}]

\* schedule.json is answered 200 / ok.
ScheduleOk(r, n) ==
    /\ NextNode(r, n)
    /\ n <= run[r].srv
    /\ accepted' = [accepted EXCEPT ![r][n] = @ + 1]
    /\ Settle(r, n, TRUE)
    /\ UNCHANGED <<processVars, taskVars, job, tableVars, session>>

\* The node index is out of range, or the request is refused, or lost, or its
\* answer is lost after Scrapyd took the job.
ScheduleFailed(r, n) ==
    /\ NextNode(r, n)
    /\ \/ UNCHANGED accepted
       \/ /\ n <= run[r].srv
          /\ accepted' = [accepted EXCEPT ![r][n] = @ + 1]
    /\ IF n \in run[r].retry THEN Settle(r, n, FALSE) ELSE Defer(r, n)
    /\ UNCHANGED <<processVars, taskVars, job, tableVars, session>>

\* _insert_job_result: nothing is stored once the TaskResult is gone...
CheckResult(r) ==
    /\ alive
    /\ run[r].pc = "check"
    /\ run' = [run EXCEPT ![r].pc = IF r \in result THEN "insert" ELSE "node"]
    /\ UNCHANGED <<processVars, taskVars, job, tableVars, accepted, session>>

\* ...and main() ends with an exception, the remaining nodes untried, if the row
\* goes between the check and the commit (a foreign key error), or if the node
\* list is empty: the URL then names no server, and servers[node - 1] is out of
\* range.
InsertJobResult(r) ==
    /\ alive
    /\ run[r].pc = "insert"
    /\ \/ /\ r \in result /\ run[r].srv > 0
          /\ rows' = rows \cup {[run |-> r, node |-> run[r].node,
                                 ok |-> run[r].ok, round |-> run[r].round]}
          /\ run' = [run EXCEPT ![r].pc = "node"]
       \/ /\ r \notin result \/ run[r].srv = 0
          /\ run' = [run EXCEPT ![r].pc = "lost"]
          /\ UNCHANGED rows
    /\ UNCHANGED <<processVars, taskVars, job, result, count, stamp, accepted,
                   session>>

\* Mutants: no second round, or one after every round that deferred a node.
NoRetry(r) == FALSE
RetryAgain(r) == run[r].retry # {}

\* The second iteration of main()'s outer loop is not skipped by its continue.
RetryDue(r) == run[r].round = 1 /\ run[r].retry # {}

\* Mutant: the second round goes over every node.
AllSelected(r) == run[r].sel

\* The list of the second round.
RetryNodes(r) == run[r].retry

\* Mutant: the counts of the first round are written before the second.
RetryAfterCounts(r) ==
    /\ alive
    /\ run[r].pc = "node" /\ run[r].todo = {} /\ RetryDue(r)
    /\ run' = [run EXCEPT ![r].round = run[r].round + 1,
                       ![r].todo = RetryNodes(r)]
    /\ count' = [count EXCEPT ![r] = [pass |-> run[r].pass, fail |-> run[r].fail]]
    /\ UNCHANGED <<processVars, taskVars, job, result, stamp, rows, accepted, session>>

\* After a sleep, the nodes of the first round that failed.
StartRetry(r) ==
    /\ alive
    /\ run[r].pc = "node" /\ run[r].todo = {} /\ RetryDue(r)
    /\ run' = [run EXCEPT ![r].round = run[r].round + 1,
                       ![r].todo = RetryNodes(r)]
    /\ UNCHANGED <<processVars, taskVars, job, tableVars, accepted, session>>

\* Mutant: the two counts change places.
SwappedTotals(r) == [pass |-> run[r].fail, fail |-> run[r].pass]

\* What the executor counted.
Totals(r) == [pass |-> run[r].pass, fail |-> run[r].fail]

\* The counts are written, if the row is still there.
CloseResult(r) ==
    /\ alive
    /\ run[r].pc = "node" /\ run[r].todo = {} /\ ~RetryDue(r)
    /\ run' = [run EXCEPT ![r].pc = "done"]
    /\ count' = IF r \in result THEN [count EXCEPT ![r] = Totals(r)] ELSE count
    /\ UNCHANGED <<processVars, taskVars, job, result, stamp, rows, accepted, session>>

-----------------------------------------------------------------------------
(* The environment.                                                        *)

\* The node list is edited; a running executor keeps the list it captured.
EditServers(n) ==
    /\ alive
    /\ n # servers
    /\ servers' = n
    /\ UNCHANGED <<alive, resumed, taskVars, job, run, tableVars, accepted, session>>

\* Threads, requests and open transactions die; committed rows and jobs stay.
Crash ==
    /\ alive
    /\ alive' = FALSE
    /\ adding' = {}
    /\ staged' = [t \in Task |-> {}]
    /\ rejobbed' = {}
    /\ run' = [r \in Run |->
         CASE run[r].pc \in {"read", "orphan", "create"} -> FreshRun
           [] run[r].pc \in {"node", "check", "insert"} -> [run[r] EXCEPT !.pc = "lost"]
           [] OTHER -> run[r]]
    /\ session' = [s \in Session |-> FreeSession]
    /\ UNCHANGED <<resumed, servers, task, selected, job, tableVars, accepted>>

\* lifespan starts the scheduler paused and resumes it if the stored state says
\* so; either way here.
Restart ==
    /\ ~alive
    /\ alive' = TRUE
    /\ resumed' \in BOOLEAN
    /\ UNCHANGED <<servers, taskVars, job, run, tableVars, accepted, session>>

-----------------------------------------------------------------------------
Handler ==
    \/ \E t \in Task, S \in Selections : InsertTask(t, S) \/ StageUpdate(t, S)
    \/ \E t \in Task : \/ AddJob(t)
                       \/ ReplaceJob(t) \/ RollbackUpdate(t) \/ CommitUpdate(t)
                       \/ PauseJob(t) \/ ResumeJob(t) \/ RemoveJob(t)
    \/ ToggleScheduler

Deletion(s) ==
    \/ \E t \in Task : BeginDeleteTask(s, t)
    \/ LoadTask(s)
    \/ \E r \in Run : LoadResult(s, r)
    \/ LoadBeyondLimit(s)
    \/ \E cutoff \in 0..Cardinality(Run) : LoadTooOld(s, cutoff)
    \/ CommitDelete(s)

Scheduler(t) == (\E r \in Run : Fire(t, r)) \/ SkipLastFiring(t)

Executor(r) ==
    \/ ReadTask(r) \/ DropOrphanJob(r) \/ CreateResult(r)
    \/ \E n \in Node : ScheduleOk(r, n) \/ ScheduleFailed(r, n)
    \/ CheckResult(r) \/ InsertJobResult(r)
    \/ StartRetry(r) \/ CloseResult(r)

Environment == (\E n \in ServerCounts : EditServers(n)) \/ Crash \/ Restart

Next ==
    \/ Handler
    \/ \E s \in Session : Deletion(s)
    \/ \E t \in Task : Scheduler(t)
    \/ \E r \in Run : Executor(r)
    \/ Environment

Spec == Init /\ [][Next]_vars

\* The APScheduler thread keeps firing due jobs and a thread that runs gets to
\* its end (each request has a timeout).  Users, crashes and restarts owe nothing.
FairSpec ==
    /\ Spec
    /\ \A t \in Task : WF_vars(\E r \in Run : Fire(t, r))
    /\ \A r \in Run : WF_vars(Executor(r))

-----------------------------------------------------------------------------
(* Properties.                                                             *)

TypeOK ==
    /\ alive \in BOOLEAN /\ resumed \in BOOLEAN /\ servers \in 0..MaxNode
    /\ task \in [Task -> {"unborn", "live", "deleted"}]
    /\ selected \in [Task -> SUBSET Node]
    /\ adding \subseteq Task
    /\ staged \in [Task -> SUBSET Node]
    /\ rejobbed \subseteq Task
    /\ job \in [Task -> {"none", "armed", "paused"}]
    /\ run \in [Run -> RunState]
    /\ result \subseteq Run
    /\ count \in [Run -> [pass: Nat, fail: Nat]]
    /\ stamp \in [Run -> Nat]
    /\ rows \subseteq Row
    /\ accepted \in [Run -> [Node -> Nat]]
    /\ session \in [Session -> SessionState]

\* A firing that ran to its end and still has its TaskResult has one stored
\* outcome for every node it was told to try, and the counts on the row are the
\* numbers of its ok and of its other outcomes: whatever was deleted, updated or
\* re-configured meanwhile, the history page's totals agree with its details.
PassRows(r) == {x \in rows : x.run = r /\ x.ok}
FailRows(r) == {x \in rows : x.run = r /\ ~x.ok}
ClosedIsComplete ==
    \A r \in result : run[r].pc = "done" =>
        /\ {x.node : x \in RowsOf({r})} = run[r].sel
        /\ count[r] = [pass |-> Cardinality(PassRows(r)),
                       fail |-> Cardinality(FailRows(r))]

\* main()'s two rounds never store two outcomes for one node of a firing, and
\* store none for a node that was not selected when the task was read.
OneOutcomePerNode ==
    /\ \A x, y \in rows : x.run = y.run /\ x.node = y.node => x = y
    /\ \A x \in rows : x.node \in run[x.run].sel

\* What _delete_outdated has loaded belongs to firings that have ended, none of
\* whose outcomes it missed: the cleanup takes no row from under a running
\* executor and its commit cannot fail on a foreign key.
CleanupTakesOnlyClosed ==
    \A s \in Session : session[s].op \in {"limit", "days"} =>
        /\ \A r \in session[s].results : run[r].pc = "done"
        /\ KeysHold(s)

\* Once a node has acknowledged a firing's job the executor never posts that
\* jobid to it again, and no node is ever given the job a third time.
Acknowledged(r, n) ==
    \/ [run |-> r, node |-> n, ok |-> TRUE, round |-> 1] \in rows
    \/ [run |-> r, node |-> n, ok |-> TRUE, round |-> 2] \in rows
    \/ run[r].pc \in {"check", "insert"} /\ run[r].node = n /\ run[r].ok
NoRepeatAfterAck ==
    [][\A r \in Run, n \in Node :
         accepted'[r][n] # accepted[r][n] => ~Acknowledged(r, n) /\ accepted[r][n] < 2]_vars

\* Counts, once on the row, are final, and so are the outcomes under it: they can
\* only disappear, and only with the row.
ClosedIsFinal ==
    [][\A r \in result :
         Counted(r) => \/ r \notin result'
                       \/ /\ count'[r] = count[r]
                          /\ RowsOf({r})' = RowsOf({r})]_vars

\* Every executor that starts ends, unless the process dies under it.
RunEnds == \A r \in Run : Running(r) ~> ~Running(r)

\* A job left behind by a deleted task (a deletion that ignored the job, or raced
\* an update) removes itself at its next firing: it does not stay armed for ever
\* while the scheduler runs.
OrphanJobHeals ==
    \A t \in Task :
        (task[t] = "deleted" /\ job[t] = "armed") ~>
            (job[t] # "armed" \/ ~alive \/ ~resumed)

\* services/tasks.py:4: "For each selected node it posts the task's spider settings
\* [...] with one retry round, and records TaskResult / TaskJobResult rows".  An
\* executor that ends while the server is up and its TaskResult exists has recorded
\* an outcome for every selected node.
EveryOutcomeRecorded ==
    [][\A r \in result' :
         Running(r) /\ ~Running(r)' /\ alive' =>
            {x.node : x \in RowsOf({r})'} = run'[r].sel]_vars

\* Why they hold: the parts of an inductive invariant.  Pending(r) is what firing r
\* still owes an outcome: the rest of the round, the nodes deferred to the second,
\* and the node whose result is on its way to the table.
Working(r) == run[r].pc \in {"node", "check", "insert"}
Holding(r) == run[r].pc \in {"check", "insert"}
Deferred(r) == IF run[r].round = 1 THEN run[r].retry ELSE {}
Pending(r) == run[r].todo \cup Deferred(r)
              \cup (IF Holding(r) THEN {run[r].node} ELSE {})
Stored(r) == {x.node : x \in RowsOf({r})}

\* An executor starts with a clean sheet; what it owes, it owes once; and the
\* second round retries only what the first deferred.
ExecutorInv(r) ==
    /\ run[r].pc \in {"read", "create"} =>
         run[r].round = 1 /\ run[r].retry = {} /\ run[r].pass = 0 /\ run[r].fail = 0
    /\ Working(r) =>
         /\ Pending(r) \subseteq run[r].sel
         /\ run[r].todo \cap Deferred(r) = {}
         /\ run[r].round = 2 => run[r].todo \subseteq run[r].retry
         /\ Holding(r) => run[r].node \notin run[r].todo \cup Deferred(r)

\* Rows have their parents, one per selected node, and a working executor has
\* stored exactly what it no longer owes.
TableInv(r) ==
    /\ Stored(r) \subseteq run[r].sel
    /\ \A x, y \in RowsOf({r}) : x.node = y.node => x = y
    /\ r \notin result => RowsOf({r}) = {}
    /\ r \in result =>
         /\ Working(r) \/ run[r].pc \in {"done", "lost"}
         /\ task[run[r].task] = "live"
         /\ Working(r) => Stored(r) = run[r].sel \ Pending(r)
         /\ run[r].pc = "done" => Stored(r) = run[r].sel

\* The executor's counters are the stored outcomes and the one on its way.
HeldPass(r) == IF Holding(r) /\ run[r].ok THEN 1 ELSE 0
HeldFail(r) == IF Holding(r) /\ ~run[r].ok THEN 1 ELSE 0
CountInv(r) ==
    /\ IsFiniteSet(RowsOf({r}))
    /\ run[r].pc # "done" => count[r] = NoCount
    /\ r \in result /\ Working(r) =>
         /\ run[r].pass = Cardinality(PassRows(r)) + HeldPass(r)
         /\ run[r].fail = Cardinality(FailRows(r)) + HeldFail(r)
    /\ r \in result /\ run[r].pc = "done" =>
         count[r] = [pass |-> Cardinality(PassRows(r)),
                     fail |-> Cardinality(FailRows(r))]

\* A node that is to be tried has taken the job at most once before, and not at all
\* before the retry round.
AcceptedInv(r) ==
    \A n \in Node :
        /\ run[r].pc \in {"idle", "read", "orphan", "create"} => accepted[r][n] = 0
        /\ Working(r) /\ n \in run[r].todo /\ run[r].round = 1 => accepted[r][n] = 0
        /\ Working(r) /\ n \in run[r].todo \cup Deferred(r) => accepted[r][n] < 2

\* A deletion holds rows of the results it holds; the cleanup holds closed ones.
SessionInv(s) ==
    /\ \A x \in session[s].rows : x.run \in session[s].results
    /\ session[s].op \in {"limit", "days"} =>
         /\ session[s].tasks = {}
         /\ \A r \in session[s].results : run[r].pc = "done"
         /\ KeysHold(s)

Inductive ==
    /\ \A r \in Run : ExecutorInv(r) /\ TableInv(r) /\ CountInv(r) /\ AcceptedInv(r)
    /\ \A s \in Session : SessionInv(s)

\* The history page's contract, TaskHistory, with the tables as its state.  (Its
\* "dropped" records are those whose row was inserted once and is gone.)
PhaseOf(r) ==
    CASE r \in result /\ run[r].pc = "done" -> "closed"
      [] r \in result /\ run[r].pc = "lost" -> "cut"
      [] r \in result /\ run[r].pc \notin {"done", "lost"} -> "open"
      [] r \notin result /\ stamp[r] > 0 -> "dropped"
      [] OTHER -> "idle"

WantedOf(r) == IF r \in result THEN run[r].sel ELSE {}
GoodOf(r) == {x.node : x \in PassRows(r)}
BadOf(r) == {x.node : x \in FailRows(r)}
TotalOf(r) == IF r \in result THEN count[r] ELSE NoCount

History == INSTANCE TaskHistory WITH
    phase  <- [r \in Run |-> PhaseOf(r)],
    wanted <- [r \in Run |-> WantedOf(r)],
    good   <- [r \in Run |-> GoodOf(r)],
    bad    <- [r \in Run |-> BadOf(r)],
    total  <- [r \in Run |-> TotalOf(r)]

\* Whatever the handlers, the cleanup, the scheduler and the executors interleave,
\* what the tables show is a behaviour of TaskHistory.
ImplementsHistory == History!Spec

\* default_settings.py:111: "only the latest 1000 timer task results would not be
\* deleted from the database".  What the first pass of a cleanup loads leaves at
\* most KeepLimit results of firings no executor is working on.
KeepLimitHonoured ==
    [][\A s \in Session :
         session[s].op = "idle" /\ session'[s].op = "limit" =>
            Cardinality({r \in result \ session'[s].results : ~Running(r)})
              <= KeepLimit]_vars
=============================================================================
