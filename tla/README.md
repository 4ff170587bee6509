# scrapydweb in TLA+

A verification development of scrapydweb (this repository): TLA+ models of the parts whose
behaviour depends on interleaving, failure and order, TLC runs on small instances, and TLAPS
proofs for every instance. Paths below are relative to `src/scrapydweb/`, those of pages,
components and lib to `src/frontend/src/`.

scrapydweb is a FastAPI server in front of many Scrapyd nodes, with a React application in front
of it. One process holds the asyncio loop of the HTTP handlers, two APScheduler instances with
their thread pools (timer tasks; maintenance jobs) and thread-pool threads for builds.
PostgreSQL holds everything that survives. The nodes are reached over HTTP and fail
independently. Every browser tab keeps a query cache, forms filled from it, and the number of
the node it looks at; users share one account and a cookie per browser.

## Inventory

| Component | State | Operations | Hard behaviour |
|---|---|---|---|
| Timer tasks (`services/tasks.py`, `routers/tasks.py`, `scheduler.py`, task branch of `routers/schedule.py`) | tables task, task_result, task_job_result; APScheduler job store; executor threads | add, update, fire, pause, resume, remove, delete, cleanup, enable, disable; firing over the nodes with one retry round | handlers, scheduler thread and executors share the tables without locks; lost answers; crashes; node list edited under a firing |
| Scheduling requests (`routers/schedule.py`, `services/deploy_utils.py`) | `slot.data` (10 entries), pickle files | check, run, schedule_task, group tasks | eviction, shared file names, mutation of the shared dict, job store against row |
| Collector and Job tables (`services/logstats.py`, `services/jobs_sync.py`, `routers/jobs.py`, `api_jobs` of `routers/apiv2.py`) | job_stats, one Job table per node | collector cycle, browser refresh, stop, snapshot | two writers with listings of different ages; one commit per server; fetch failures |
| Alerts (`services/alerts.py`, `services/alert_rules.py`, `services/notify.py`) | JobStats.alert_state, alert rules | evaluate, stop or force-stop, notify | sent before the commit; marked as sent when not delivered |
| Job versions (`services/job_versions.py`) | job_version | resolve, upsert | resolved after the job was scheduled |
| Run Spider page (`pages/schedule.tsx`, `components/schedule/`, `lib/schedule-payload.ts`) | the form, the cached task, the submit | fill, edit a task, pick nodes, check, run, xhr per further node | a chain of requests over a slot other users share; a form of a stale row |
| Deploy (`routers/deploy.py`, `routers/deploy_ci.py`, `routers/webhooks.py`, `services/scrapyd_deploy.py`, `pages/deploy.tsx`, `pages/projects.tsx`) | eggs on every node, deploy_record | build, addversion, check, roll back, record; delete, prune | concurrent deploys of a version, ignored rollback answers, background tasks lost in a crash, chdir from threads |
| Settings (`routers/settings.py`, `settings_store.py`, `utils/apply_settings.py`, `pages/settings.tsx`) | setting table, live dict, system jobs, per-node table maps; the page's draft | save, roll back, reset, apply | concurrent savers, partial application, node renumbering |
| Edited rows: alert rules, projects, groups (`routers/alerts.py`, `routers/projects.py`, `routers/groups.py` and their pages) | one table each; dialogs, builder, switches | create, update, toggle, delete | forms over stale rows, answers to pages that moved on |
| Query cache (`lib/api.ts`, `main.tsx`) | cached answers, reads in flight | fetch, apply, invalidate | an answer older than a change arrives after it |
| Session gate (`App.tsx`, `pages/login.tsx`, `components/user-menu.tsx`, `auth.py`, `routers/auth.py`) | user, cookie, the tab's auth-me | set-up, log in, log out, redirect on 401 | other tabs share the cookie; stale auth-me; first-account race |
| Node choice and polled pages (`lib/node-context.tsx`, `components/topbar.tsx`, `pages/jobs.tsx`, `pages/tasks.tsx`, `pages/log.tsx`, `pages/dashboard.tsx`) | node number, rows, log text | choose, poll, act on a row, open a log | the number is a position in a list others edit; rows of the node before stay on the screen |
| API tokens, log and Scrapyd proxies, metrics, search, UI kit | | | see PROJECT.json for what is left out and why |

What makes each correct:

* Timer tasks: the history tells the truth about what was tried; a firing tries every selected
  node, retries once and only what failed; nothing acknowledged is posted again; deletions and
  cleanups never corrupt the rest; executors end; jobs without a task go away.
* Scheduling requests: what is run is what was checked; the stored job and its row agree.
* Collector: the Job tables converge to what the nodes list; no older listing overrides a newer
  one; every finished log is parsed once its final size is stored.
* Alerts: each condition is notified at least once and, by alert_state, not repeatedly.
* Run Spider: each picked node gets one job, of what the form says; an edit keeps what it does
  not touch.
* Deploy: a result that says ok means a version that lists spiders; no egg without spiders
  stays; the latest version survives a pruning.
* Settings: rows and live settings agree after a save that failed as after one that did not.
* Edited rows: a form gives back what its user did not touch; a switch is undone by nobody's
  dialog; a tab shows what it was told it saved.
* Session and polled pages: whoever signs in gets in, whoever is signed out is sent to the login
  page; an action reaches the server of the row it was clicked on; a log that is no longer
  polled is whole.

The hazards these come from are in PROJECT.json, each at its line, with the properties that
cover it or the reason why none does.

## Modules

| Module | What it is |
|---|---|
| `TimerTasks` | the timer-task component, in full detail |
| `TaskHistory` | the abstract contract of the history page, implemented by `TimerTasks` |
| `MCTimerTasks` | TLC instance: symmetry; its six `.cfg` files give the constants |
| `TimerTasks_proofs` | type correctness |
| `TimerTasks_safety` | the inductive invariant and the safety theorems |
| `Collector` | the stats collector and the browser refresh, two writers of one Job table |
| `MCCollector` | TLC instance; its three `.cfg` files give the constants |
| `Collector_proofs` | type correctness and the safety of the finish notices |
| `Editors` | the settings, rules, projects and groups pages of several tabs and the handlers that store them |
| `SettingsContract` | the abstract contract of saving settings, implemented by `Editors` |
| `MCEditors` | TLC instance |
| `Editors_proofs` | type correctness; settings: stored against live, the contract; switches |
| `Editors_tabs` | forms and caches of the tabs (extends `Editors_proofs`) |
| `Console` | one tab: session gate, chosen node, rows with actions, log page |
| `MCConsole` | TLC instance, with its four choices of page and bounds |
| `Console_proofs` | type correctness; rows, actions and logs |
| `Deploys` | the versions of a project on the nodes: deploys, deletions, pruning |
| `ScheduleForm` | the Run Spider page, check, run and xhr; extends `Deploys`, so that versions change under a form |
| `MCPublish` | TLC instance of both, with its six choices of bounds |
| `ScheduleForm_proofs` | what deploys leave behind and what pruning keeps, in the presence of forms |
| `ScheduleForm_submits` | types, forms, submits and saved tasks, in the presence of deploys (extends `ScheduleForm_proofs`) |

### TimerTasks

State and code:

| Variable | Code |
|---|---|
| `task`, `selected` | rows of Task and their selected_nodes; ids come from a sequence and are not reused |
| `adding`, `staged`, `rejobbed` | requests inside schedule_run: inserted but add_job not called; update flushed but not committed; add_job of that update done |
| `job` | the APScheduler job of the task: none, armed (has a next_run_time) or paused |
| `run` | one record per firing: the local state of TaskExecutor and where its thread is |
| `result`, `count`, `stamp`, `rows` | TaskResult, its two counts, the order of execute_time; TaskJobResult |
| `accepted` | how often a node's Scrapyd took the firing's jobid: what the outside world saw |
| `session` | a deletion in flight: what it has loaded and will delete at its commit |
| `alive`, `resumed`, `servers` | the process; the scheduler's enable/disable switch; the length of the node list |

Steps are as large as the code's own atomicity: one per database transaction, HTTP exchange or
scheduler call. A handler is split where it awaits, so a deletion is load then commit, and an
update is flush, add_job, commit or rollback.

* `InsertTask`, `AddJob`, `StageUpdate`, `ReplaceJob`, `RollbackUpdate`, `CommitUpdate`: the
  task branch of schedule_run. A flushed update holds its row lock, which delays a deletion of
  the task and a second update.
* `PauseJob`, `ResumeJob`, `RemoveJob`, `ToggleScheduler`: `_xhr_dispatch`. `fire` only brings
  next_run_time forward; without clocks it is no step.
* `BeginDeleteTask`, `LoadTask`, `LoadResult`, `LoadBeyondLimit`, `LoadTooOld`, `CommitDelete`:
  the delete action, its three forms. The commit succeeds as a whole if the foreign keys hold
  and fails as a whole otherwise.
* `Fire`, `SkipLastFiring`: the scheduler thread, with max_instances.
* `ReadTask`, `DropOrphanJob`, `CreateResult`, `ScheduleOk`, `ScheduleFailed`, `CheckResult`,
  `InsertJobResult`, `StartRetry`, `CloseResult`: `execute_task` and `TaskExecutor`.
  `ScheduleFailed` covers a node number out of range, a refusal, a lost request, and an answer
  lost after the job was taken.
* `EditServers`, `Crash`, `Restart`: the environment.

Abstractions: the database is PostgreSQL (the only one supported): each commit is atomic,
foreign keys hold at commit, ids are never reused. A trigger is "may fire again, or not". A Task
row is its selected_nodes. selected_nodes has no duplicates and is in ascending order, as
schedule_run builds it. An answer is ok or not: an answer whose body says ok under another HTTP
status than 200, which is counted as ok in the second round, is left out. A restart finds the
scheduler paused or running: the stored scheduler_state is not modelled here. Recording the job
version after an accepted post never raises and touches only the job_version table, so it is no
step of this model.

### TaskHistory

A record is opened with the nodes it wants, gets one outcome per wanted node, is closed with the
totals of those outcomes once all have one; open records may be cut short and any may be
dropped, whole. No executors, jobs, sessions or retries. `ImplementsHistory` maps a TaskResult
to a record (`PhaseOf`): open while its executor works, closed when it ended, cut when the
executor died or gave up, dropped when the row is gone.

### Collector

One Scrapyd node, the collector thread and the requests of the jobs page. It shares no state
with the timer tasks, so nothing composes the two.

| Variable | Code |
|---|---|
| `phase`, `log` | the node: what its /jobs says of a job, and the length of the log; Full is a log with a finish reason |
| `stats` | job_stats: last probed size, the length the parsed columns come from, alert_state's "finished" |
| `table` | the node's Job table: status (start is NULL exactly when it is pending) and the columns copied from job_stats |
| `collector` | collect_all: the listing it fetched, the session's copy of job_stats, logs still to visit, and the transaction on the Job table |
| `request` | api_jobs: the listing and the job_stats it read, which of its four transactions is next, and the rows it has loaded |
| `notices`, `asked`, `crashes` | notices sent; the two bounded counts |

* `BeginCycle`, `Probe`, `ProbeFailed`, `Fetch`, `FetchFailed`: `_collect_server`, with
  `evaluate_alerts` in `Fetch`. The size is stored by `Probe`, the parsed columns by `Fetch`.
* `SyncServerJobs`: `sync_server_jobs`, three passes whose queries all see the database and not
  the session (autoflush is off); `EndCycle`: commit, or rollback of everything.
* `BeginRequest`, `LoadRows`, `CommitRows`: api_jobs, once each for insert, clean, finalize and
  backfill, split between loading and committing.
* A commit is `Merged`: an UPDATE sets the columns that differ from what was loaded, an INSERT
  of a row another writer has inserted, or an UPDATE of a row another has deleted, is a
  `Conflict` and fails the transaction.

Abstractions. The rows of one transaction are loaded in one step, although the code selects them
one after the other within a few milliseconds; so are the listing and the job_stats rows that a
cycle or a request starts from. A row deleted and inserted again between another transaction's
load and commit counts as the same row. A listing has one entry per job. A job has a group or
ON_JOB_FINISHED is set; whether a notice that is due goes out is free (working time, a disabled
group, a failed dispatch). Thresholds, stops and running notices use other keys of alert_state;
a stop is one of the ways a job ends. A log larger than MAX_LOG_BYTES is one whose fetch fails.
A job id is not reused.

### Editors

A behaviour is about one kind of document: the settings (one document, `Registry`), or rows of
rules, projects or groups. `Tabs` are followed in full, of `Elsewhere` only the requests.

| Variable | Code |
|---|---|
| `stored`, `live` | the tables; app.state.settings, `None` where the default is in force |
| `version` | how often what a fetch shows of a document changed: no state of the code, it dates answers |
| `tab` | is the page mounted, its form or draft, its query cache, the fetch in flight; `acked` is what it was told is stored |
| `request` | one request per client, from the click to the answer; inside save_settings it has one step per await |
| `overlap` | two settings saves were handled at once since the start |

* `Enter`, `Leave`, `FetchAnswer`, `FetchApply`, `Invalidated`: a query of React Query as
  main.tsx configures it. A fetch is sent, answered and applied in three steps.
  invalidateQueries drops a fetch in flight for a new one, but joins it as long as the query has
  no data.
* `Open`, `OpenNew`, `SetField`, `ClearField`, `Close`: forms, filled from the cache and from
  then on independent of it. `Body` is what each page's save names: the draft, all columns of a
  dialog but the switch, all columns of a group.
* `SaveForm`, `ResetSetting`, `Toggle`, `Delete`, `SendElsewhere`: the requests.
* `Reject`, `CreateRow`, `UpdateRow`, `DeleteRow`: the row handlers, one transaction each.
* `Take`, `WriteSettings`, `ApplyChanges`, `ApplyFails`, `Restore`, `DropNew`, `DeleteKeys`,
  `RestoreDefaults`: save_settings and its rollback, interleaved between any two awaits.
* `AnswerOk`, `AnswerError`: onSuccess and onError, which find the tab as it is by then.
  `Restart`: handlers die, live is the stored settings overlaid on the defaults. A start that
  cuts no request short and leaves the live settings as they are is left out (`Interrupts`): all
  it could do is to lose the read of a page that is not shown.

### SettingsContract

A save is sent, worked on and ends with ok, when all its keys take effect at once, or with an
error, when none does. While it is worked on its own keys may be loose: a start of the server
would change them. Alone, a save leaves no key loose, and a start changes a key only to what the
save it cut off asked for; that may be some of its keys only, since a rollback takes two
transactions. Saves handled at once (`mixed`) are excused until the next start, for keys they
left loose. `ImplementsContract` maps the live settings, the requests and the differences
between tables and process to this. More saves, and values to tell an old one from a new one,
are left to the proof.

### Console

One tab, while the world around it changes: other tabs of the browser sign in and out, others
edit the server list, jobs and tasks end.

| Variable | Code |
|---|---|
| `account`, `cookie` | the user table has a row; the browser holds a valid session |
| `list`, `work` | the server list in force; the job of each server, the task of the app |
| `tab` | route, auth-me and its read in flight, submit or logout under way, node list and node number, rows and their reads per number, the placeholder rows (`prev`), open dialog, log page |
| `act` | the row action in flight |
| `view` | the page with rows: jobs or tasks |
| `limits`, `counts` | the bounds, and the counts they bound |

* Session: `MeDeliver`, `MeFail`, `Submit`, `SubmitAnswer`, `Logout`, `LogoutAnswer`,
  `ElsewhereSession`; `Rendered` is what the gate and the login page do with a new answer.
* Node: `setNode`, `NodesPoll`, `StatusPoll`, `EditServers`; `Clamped` is the effect of
  NodeProvider.
* Rows: `ListPoll`, `ListApply`, `Click`, `Confirm`, `ActHandle`, `ActAnswer`, `WorkEnds`,
  `FromDashboard`.
* Log: `OpenLog`, `OpenRecent`, `LogPoll`.

A read carries the cookie and the rows of the moment it is sent. A row remembers where and when
it was read (`source`, `edits`, `handled`), which only the properties use. A behaviour keeps to
one member of `Scenarios`: a page, and how often each counted thing may happen.

### Deploys and ScheduleForm

| Variable | Code |
|---|---|
| `held`, `changes` | the egg of each version on each node, who stored it and whether it lists spiders; how often each was stored or deleted |
| `deploy` | a deploy: version, targets, where each node is between addversion, listspiders and delversion, the record |
| `prune` | the version list on the projects page, and the loop of delversions |
| `form`, `seen`, `post`, `jobs` | of each user: the form, the task list it read, the submit on its way and the jobs it started |
| `slot`, `file`, `checks` | slot.data, the pickles, how often each key was checked |
| `tasks` | the timer tasks ever made |

* `DeployPicked`, `DeployGit`, `DeployProject`, `Webhook`: the four ways a deploy begins; the
  last two write a pending record first. `AddVersion`, `ListSpiders`, `Rollback`, `End`:
  deploy_egg_to_nodes and the record; all nodes answer before the first is asked for spiders.
  Lost calls are counted.
* `Delete`, `ListVersions`, `PruneOld`, `PruneNext`: the projects page, whose list is not
  polled.
* `OpenBlank`, `OpenTask`, `SetTarget`, `SetSettings`, `SetArgs`, `SetWhen`, `SetMode`,
  `PickNode`, `FollowNode`, `ReadTasks`, `Leave`: the form. `TaskToForm` and `buildScheduleForm`
  are the functions of that name. A target is the latest version or one some node has had
  (`Named`).
* `Check`, `RunJob`, `SaveTask`, `RunTaken`, `Record`, `Xhr`: schedule_check, schedule_run and
  schedule_xhr. `Data` is the slot's entry or, once evicted, the pickle, which has no task data:
  `Added` evicts the oldest. `SaveTask` pops the task data from the shared entry, so that a
  second run of one check fails (`RunTaken`).

What runs under a name is decided by what the node holds at that time (`Runs`), what is recorded
by what it lists afterwards (`Resolved`).

## Runs

| Run | Instance | Checks |
|---|---|---|
| task_run | one task, one firing over one or two of two nodes and one more for an orphan job, a deletion or cleanup in flight, node list of 1 or 2, KeepLimit 1 | `TypeOK`, `ClosedIsComplete`, `OneOutcomePerNode`, `CleanupTakesOnlyClosed`, `NoRepeatAfterAck`, `ClosedIsFinal` |
| task_cleanup | two overlapping firings of a task (max_instances 2), one for an orphan job, one node | `CleanupTakesOnlyClosed` |
| task_history | as task_run, one selection, node list of 0 or 2 | `ImplementsHistory` |
| task_liveness | two firings, one node or none, no symmetry | `RunEnds`, `OrphanJobHeals` |
| task_keep_limit | as task_cleanup, max_instances 1 | `KeepLimitHonoured`: violated |
| task_outcomes | one node or none | `EveryOutcomeRecorded`: violated |
| collector | one job, one browser refresh, one crash, logs of length 2 | `TypeOK`, `NoRepeatOnceCommitted`, `TableSettles` |
| collector_sync | one job, the collector alone | `CycleKeepsListed`: violated |
| collector_logs | one job, the collector alone | `FinishedLogParsed`: violated |
| editors | one tab and one page elsewhere, one row, two fields (the switch and the one whose application may fail), two requests, one restart, each kind | `TypeOK`, `LiveFollowsStore`, `SavesTouchOwnKeys`, `FormsKeepOtherColumns`, `ToggleSticks`, `ReadYourSaves`, `OwnSaveShown`, `ImplementsContract` |
| console | two servers; lists of two, of one, and empty; on the jobs page one action and one edit of the list; on the jobs page or the tasks page one action and one end of work; on the jobs page two logins or logouts with another tab and a lost read | `TypeOK`, `ActsHitTheirRow`, `LogWhole`, `ReadYourActs`, `LoginSettles`, `SignedOutLeaves`, `NodesHeal` |
| publish | two nodes, two versions of which the first is there, slot of one; two deploys and a loss; a deploy, a loss, a deletion and a list; a deploy under a form; a form edited twice and a loss; two forms, an edit and a task list; two forms, a deletion and a task list | `TypeOK`, `NoBrokenLeft`, `ResultsTell`, `EachNodeOnce`, `RecordedVersionRan`, `RunsWhatWasChecked`, `EditKeepsRest`, `PruneKeepsLatest` |

Why these bounds are enough. Firings interact only through max_instances, the cleanup's order of
results and foreign keys, so two overlapping ones show every interaction; nodes of one firing
interact through the retry list and the counts, so two show a round with a success and a failure
and one that is out of range. One deletion at a time is enough for what an executor can suffer,
since the effect of a second is that of the first, later. One task: tasks share nothing but the
cleanup, which does not look at them. The bound in the model itself is `SlotFor`: a firing of an
existing task leaves one Run free for orphan jobs, so that the bound on Run never keeps an
orphan job from firing; a Run used for an orphan is returned. `LoadTooOld` takes any cutoff
within the order of insertion: every age limit, and none.

Symmetry (permutations of Run and Task) is used for safety only.

For the collector: jobs meet only in the commit that fails for all when it fails for one, and a
conflict on the one job already loses a notice of that job. One refresh has four transactions,
each of which can load before and commit after any collector cycle. Logs of length 2 have an
unfinished and a finished content. The bounds in the model are MaxRequests and MaxCrashes;
convergence needs the refreshes to end, since a stale one may disturb the table at any time.

For the editors: a property relates one request with another one, with a fetch or with a form,
so that two requests meet in every way two can; a third client would only bring more of the
same, since a page elsewhere sends any request its page can make, at any time. Rows share
nothing. Two fields are enough for a request to name one and not the other. The page elsewhere
and the tab are both handled by the same steps, so that two saves overlap, one of them rolled
back. The bounds in the model are MaxWrites and MaxRestarts.

For the console: the list changes its length and what is behind a number. Two numbers are one
chosen and one left behind. A single action meets either an edited list or work that ends; the
session part shares only the redirect with the rest. A task has no node, so the tasks page needs
no edit of the list. What is not counted (reads, polls, clicks that lead between pages) is free,
and what is counted is free in number for the safety theorems.

For publish: two deploys meet on each of two nodes in every order, one of them possibly broken
and of the version the other one stores; the latest and an older version are what pruning and
"latest" tell apart. Two submits are one form and whoever checks the same key in between, and
with a slot of one entry the other one also evicts. More deploys, forms, nodes, versions and
slot entries are covered by the proofs, for all the properties of the run. Users and deploys are
symmetric. The run stops where its bounds end (CHECK_DEADLOCK FALSE, in editors and console
too).

Fairness of `Editors`: a fetch that was sent is answered and its answer applied (WF of
`FetchAnswer` and `FetchApply`): requests have no other fate in the model than an answer, and a
restart retries those of mounted pages, as React Query does. Handlers owe nothing:
`OwnSaveShown` starts when the tab was told.

Fairness of `Console`: a read of auth-me comes back (WF of `MeDeliver`; `MeFail` may pre-empt
it), and the two timers that do not depend on the page fire: the refetchInterval of the nodes
query and the topbar's daemonstatus (`NodesPoll`, `StatusPoll`). The reads of single pages owe
nothing, so that `SignedOutLeaves` holds on pages without polls too. `LoginSettles` excuses a
lost read: a login whose stale auth-me was joined stays on the login page when the next read is
lost.

`publish` has no liveness: that a deploy ends is only that each call has a timeout.

Fairness of `Collector`: the interval job keeps running cycles and its requests have timeouts
(WF of the collector's and each request's steps); a log that is asked for over and over is read
at some time (SF of `Probe` and `Fetch`). The node, the users and crashes owe nothing:
`TableSettles` speaks only of a job that has come to rest on the node.

Fairness of `TimerTasks` (`FairSpec`): the scheduler thread keeps firing what is due (`Fire`,
per task) and a thread that runs gets to its next step, since each request has a timeout of 60
seconds and each transaction ends. Users, crashes and restarts owe nothing. `OrphanJobHeals`
excuses a server that is down and a scheduler that is disabled; if that lasts, nothing fires.

The violated runs are disagreements between the code and its own documentation:

* task_keep_limit. `default_settings.py:111` promises that only the latest
  KEEP_TASK_RESULT_LIMIT results are kept. `_delete_outdated` (`routers/tasks.py:181`) leaves
  out every result with counts 0/0, so as not to delete one in progress; a crash leaves such a
  row for ever. The counterexample crashes after CreateResult, restarts, and shows a cleanup
  leaving more ended results than the limit.
* task_outcomes. With an empty node list (`utils/check_app_config.py:393`: "zero servers is a
  valid state") the retry of an out-of-range node builds `http://unknown/`; the pattern in
  `_insert_job_result` does not match it, and the fallback `self.servers[node - 1]` raises
  IndexError. The firing ends with nothing recorded and counts 0/0, although
  `services/tasks.py:4` says that it records the results.
* collector_sync. `services/jobs_sync.py:5` says that the collector keeps the Job table fresh.
  `_clean_pending` runs in the same unflushed session as `_upsert`: it still finds start NULL
  for a row that has just been given a start, and deletes it. The row of every job that starts
  between two cycles is lost until the next one. The async twin in `routers/jobs.py` commits in
  between.
* collector_logs. `services/logstats.py:4` says that the logs are fetched, parsed and stored.
  The size is stored before the fetch; if the fetch of a final log fails once, later cycles find
  nothing new and skip it for ever. The counterexample's cycle keeps probing (a probe that finds
  nothing new and one that fails leave the same state).

## Proofs

Proved with TLAPS for all values of the constants, from the four named assumptions of
`TimerTasks` (NoTask is no task, Run is finite, the limits are naturals, selections are nonempty
sets of configured nodes):

* `TypeCorrect`: `Spec => []TypeOK`.
* `InductiveCorrect`: `Spec => [](TypeOK /\ Inductive)`.
* `ClosedIsCompleteCorrect`, `OneOutcomePerNodeCorrect`, `CleanupTakesOnlyClosedCorrect`,
  `NoRepeatAfterAckCorrect`, `ClosedIsFinalCorrect`: each from `Inductive`.
* `ImplementsHistoryCorrect`: `Spec => ImplementsHistory`, the refinement.

`ClosedIsComplete` is not inductive: that a closing executor has stored an outcome for every
node needs to know what each working one still owes. `Pending(r)` is that debt: the rest of the
round, the nodes deferred to the second, and the node whose outcome is on its way to the table.
`Inductive` says for each firing that the debt and what is stored partition selected_nodes
(`TableInv`), that nothing is owed twice and the second round owes only what the first deferred
(`ExecutorInv`), that the executor's counters are the stored outcomes plus the one it holds
(`CountInv`), and that a node still owed has taken the job at most once, and not at all before
its first try (`AcceptedInv`); and for each deletion that the cleanup holds only closed results
with all their rows (`SessionInv`). The counts of finite sets of rows are what makes `CountInv`
the longest case: storing a row adds exactly one.

The proof of each step goes through `OneRun` and `NoRun`: a step changes one firing or none, so
that only that firing's part has to be shown again.

The refinement needs one invariant more, `Stamped`: a firing without a row yet has no place in
the order of insertion, and one with a row has, so that a dropped record is told from one that
was never opened. Each step then shows as one of `TaskHistory` (`CreateView` opens, `InsertView`
judges or cuts, `CloseView` closes, `CommitView` drops, `CrashView` cuts all open records at
once) or as a stutter (`TablesStay`). That a judged node had no outcome, and that a closed
record has them all with the right totals, is `Inductive`.

For `Collector`, from `FullAssumption`, `BoundAssumption` and `RowAssumption` (NoRow is no row),
`TypeCorrect` and `NoRepeatCorrect`: a notice is sent only while the committed row does not say
so. The property is about `stats`, but `Fetch` decides on the session's copy; the invariant
`WorkKnows` says that during a cycle the copy knows every notice the table knows of, which holds
since only the collector writes job_stats and there is one cycle at a time.

For `Editors`, from the four assumptions on fields, clients, rows and bounds, for any number of
tabs, pages elsewhere, rows, fields and requests:

* `TypeCorrect`. `TypeOK` needs what a request may name: `Fits` says that each operation comes
  with the documents and fields its page gives it, and that a dialog does not send the switch.
* `LiveFollowsStoreCorrect`. The invariant `Agree` says what each point of a handler means:
  while saves do not overlap at most one handler is at work, and stored differs from live by
  exactly what it has written and not applied, or written and not yet undone. Hence they are
  equal when none is at work.
* `ImplementsContractCorrect`: `Spec => ImplementsContract`, the refinement, from `Agree` too.
  The contract's state is the live settings, the phase and the wishes of each save (`PhaseOf`,
  `AskOf`) and the keys on which the tables differ from the process (`Unsettled`). Pages only
  send and forget (`ClientMeets`), row handlers refuse or stutter (`RowMeets`), a handler's
  steps unsettle its own keys until it ends (`SettingMeets`, where `OneHandler` shows that
  ending alone leaves nothing unsettled), and what a start finds stored is, by `Holds`, what the
  save it cut off had asked for (`RestartMeets`).
* `SavesTouchOwnKeysCorrect`: of each step. Needed with overlap, where `Agree` says nothing: a
  rollback writes only the keys of its request, although it has read them all.
* `ToggleSticksCorrect`: of each step, from `Fits`.
* `FormsKeepOtherColumnsCorrect`, from the invariant `TabReads`: whatever a tab has read of a
  row (in its cache, its form, its request, or an answer under way) is not ahead of the row, and
  equals it as long as the versions are equal.
* `ReadYourSavesCorrect`, from the invariant `Told`: a version a tab was told of is not ahead of
  the row, and an answer under way is not behind it, since telling drops the answers from
  before.

For `ScheduleForm`, whose steps include those of `Deploys`, from the assumptions on versions,
bounds and the slot and `FormAssumption` (finitely many nodes; some argument and some schedule),
for any numbers of users, nodes, versions, deploys, submits and slot entries. Of the deploys,
`ResultsTellCorrect` and `NoBrokenLeftCorrect`, from the invariant `DeploysInv`:

* `Shape`: which step each node is at fits the phase of the deploy.
* `Stands`: while nobody has stored or deleted the version since this deploy last touched it,
  the node holds what that deploy left.
* `Watched`, which `NoBrokenLeft` needs: without lost calls, for every broken egg on a node some
  deploy has still to list its spiders or to roll it back. A deploy that replaces another one's
  broken egg takes over that duty, and a deploy may only say ok on a runnable egg; a good egg
  that replaces a broken one ends it.

`PruneKeepsLatestCorrect` adds `PruneOK`: the pruning deletes nothing but what its list shows
above the version it keeps; that this is the maximum of the list is `EndsOf`.

Of the forms and submits, `TypeCorrect`, `EachNodeOnceCorrect`, `RecordedVersionRanCorrect`,
`RunsWhatWasCheckedCorrect` and `EditKeepsRestCorrect`, from the invariant `FormInv`:

* `FormOK`, `RowOK`, `PageOK`: the nodes of a form, of a row and of a cached row ascend; the
  columns of an edited task that were not touched are still those of the row it was opened from.
* `PostOK`, `JobsOK`: the jobs started and the nodes left are different nodes of the form. That
  run takes the smallest node and the page goes on behind the first one gives the same split
  only because the list ascends, which `Toggled` and `SaveTask` keep.
* `RanOK`, `StartedOK`, `VersionsOK`: while nobody has stored or deleted a version on the node
  since the job started, what its name resolves to is what ran. Recording resolves later, and is
  right exactly then.
* `Matches`, `OwnOK`: until somebody checks the same key again, the slot's entry, if it is still
  there, and the pickle say what the form said; an entry that a first run has popped stays
  popped.

Most steps are somebody else's. What they may do to the eggs is `EggsMove` (a version that
changed has a higher count) and to the slot, the pickles and the tasks `SharedMoves`;
`SubmitKept` shows once that a submit survives both, and `UserActs`, `SubmitActs` and
`NobodyActs` reduce each action to the page of the user who acts.

The sorted list of a set is a CHOOSE in the model (`Sorted`). `SortedSorts` shows that it
exists, by numbering each element with how many are not above it (`RankGrows`), which needs no
induction; `SortedUnique` that it is the only one. The minimum and maximum of a finite set of
numbers are its ends (`AscendingMin`, `EndsOf`).

For `Console`, from the assumptions on servers, rows and scenarios, for any servers, server
lists and number of actions, edits, sign-ins and failures:

* `TypeCorrect`, with the chosen node always one of the list the tab knows.
* `ActsHitTheirRowCorrect`, `LogWholeCorrect`, `ReadYourActsCorrect`, from one invariant. Each
  row, wherever it is (cached, in flight, on the screen as a placeholder, in a dialog, in an
  action), tells when it was read, and while nobody has edited the list since, its source is
  what its number names, and finished work of it is finished still (`Read`). No read in flight
  is older than what the user was told (`CacheHolds`): the answer to an action invalidates
  before it tells. That this invalidation drops the read in flight, and does not join it, needs
  the node of the row to have data, which holds as the row itself came from there (`Kept`), and
  is why a redirect, which empties the cache, sets the action adrift. A link to a log that says
  finished, made from a row of that node, was true when the row was read (`LogHolds`).

Model-checked only: the liveness properties (`RunEnds`, `OrphanJobHeals`, `TableSettles`,
`OwnSaveShown`, `LoginSettles`, `SignedOutLeaves`, `NodesHeal`), since liveness and ENABLED are
out of the prover's reach. Every other property of a passing run is a theorem.

## What the models say and no property claims

Behaviour met while modelling, kept in the models as it is. Nothing in the repository promises
otherwise, unless a line is named.

* Settings page. Edits typed while a save is in flight are wiped when it answers
  (`pages/settings.tsx:61`). Two saves handled at once can leave stored and live different until
  the next start, which is why `LiveFollowsStore` excuses `overlap`. The servers editor writes
  the whole list, so the later of two users wins.
* Rows. A dialog closed and opened on another row is closed by the late answer of the first; a
  saved group resets the builder whatever it holds by then. A full update from a stale row takes
  back another user's change of the other columns (only the switch is safe):
  `FormsKeepOtherColumns` therefore asks for an unchanged row.
* Query cache. An invalidation during the very first load joins it, so that the answer may
  predate the change; the next poll or visit repairs it. `ReadYourSaves` speaks of a tab that
  has data.
* Nodes. A list that is not empty is not read again by other tabs, although the settings page
  says "open pages refresh automatically" (`pages/settings.tsx:683`). A dashboard card of a
  server the topbar does not know yet leads to node 1. Log links on placeholder rows take the
  new node's number (`own` in `Log`).
* Log page. Nothing fills the map of finished jobs it consults, so that a log opened while the
  job was running is polled for ever.
* Session. Logging out or changing the password revokes no token. A login page in set-up mode
  stays in it when another browser has created the account.
* Scheduling. A cron request evicted from the slot is run at once, from the pickle:
  `RunsWhatWasChecked` speaks of the mode only while the slot keeps the entry. Saving an edited
  task sets time zone, dates, jitter and the other columns the form has no control for to their
  defaults, and resumes a paused task. A task missing in a stale list opens a blank form under
  the title of an edit, which makes a new task.
* Deploys. An addversion that times out after storing leaves an egg that nobody checks. Two
  deploys of one version can roll back each other's good egg (`Stands` is as much as can be
  said). A pruning from a list whose latest version was since deleted elsewhere removes all
  versions it lists but that one. A crash leaves a webhook's record pending.

## Not modelled

* API tokens, the stateless proxies and log parsing, metrics and search, the e-mail helper, the
  UI kit: no state that interleaves, or I/O and layout. The change of a password, token expiry
  and hashing.
* Of the settings: the validation of single values, the replacement of masked secrets, what
  apply_changes derives (server tables, system jobs); the renumbering of nodes against
  Task.selected_nodes.
* Of rules, projects and groups: unique names, the preview of rules, firing and scheduling a
  group.
* Of the console: filters and paging, the Stats tab, task results and dumps, the scheduler's
  switch.
* Of scheduling: schedule_task, the cURL and cron previews, the job store behind a saved task
  (which is `TimerTasks`); a task id is not reused; run reads the entry and acts on it in one
  step.
* Of deploys: building the egg, uploads, signatures, a crash.
* Two set-ups between each other's awaits, the persisted scheduler_state, threshold alerts and
  stops, listings with repeated jobs: their hazards are listed without a property.

## Plan

Done: `TimerTasks` with `TaskHistory`; `Collector`; `Editors` with `SettingsContract`; `Console`;
`Deploys` and `ScheduleForm`. Left, by what it would add:

1. `Collector`: threshold alerts and stops, listings with two entries of one job.
2. Renumbering: the server list against Task.selected_nodes, composing `Editors` and
   `TimerTasks`.
3. enable and disable against the stored scheduler_state; the first-account race; firing a
   group.
