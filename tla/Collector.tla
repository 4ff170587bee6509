----------------------------- MODULE Collector -----------------------------
(***************************************************************************)
(* The stats collector and the browser refresh of one Scrapyd node: two    *)
(* writers of its Job table, each applying a listing fetched earlier       *)
(* (services/logstats.py, services/jobs_sync.py, services/alerts.py,       *)
(* routers/jobs.py, api_jobs of routers/apiv2.py).                         *)
(*                                                                         *)
(* A collector cycle works in one session: it changes its own copy of the  *)
(* job_stats rows log by log, sends finish notices on the way, brings the  *)
(* Job table up to its listing and commits everything at once.  api_jobs   *)
(* uses several transactions.  Both sessions have autoflush off, so their  *)
(* queries see the database and not their own pending changes, and a       *)
(* commit writes the columns that differ from what was loaded.             *)
(*                                                                         *)
(* A log is its length: it has a finish reason when it is Full.            *)
(***************************************************************************)
EXTENDS Naturals

CONSTANTS
    Jobs,         \* jobs that may be scheduled on the node
    Requests,     \* api_jobs requests that can be in flight together
    Full,         \* length of a log whose spider has closed
    MaxRequests,  \* bound: api_jobs requests in a behaviour
    MaxCrashes,   \* bound: crashes in a behaviour
    NoRow         \* no row with this key in the table

ASSUME FullAssumption == Full \in Nat \ {0}
ASSUME BoundAssumption == MaxRequests \in Nat /\ MaxCrashes \in Nat

VARIABLES
    phase,      \* what Scrapyd's /jobs says of each job
    log,        \* length of each job's log, 0 while there is none
    stats,      \* job_stats table
    table,      \* the node's Job table
    collector,  \* the thread of collect_all
    request,    \* api_jobs requests
    notices,    \* finish notices dispatched for each job
    asked,      \* api_jobs requests made
    crashes     \* crashes so far

node == <<phase, log>>
vars == <<phase, log, stats, table, collector, request, notices, asked, crashes>>

Started == {"running", "finished"}
Listed == {"pending"} \cup Started
Phases == {"new", "gone"} \cup Listed

\* size is what the last probe saw; every parsed column comes from the log at
\* length parsed (0: never parsed); told is alert_state's "finished".
StatsRow == [size : 1..Full, parsed : 0..Full, told : BOOLEAN]
\* start is NULL exactly when status is pending; pages stands for the columns
\* copied from job_stats (0: NULL).
JobRow == [status : Listed, pages : 0..Full]

ASSUME RowAssumption == NoRow \notin StatsRow /\ NoRow \notin JobRow

Stats == [Jobs -> StatsRow \cup {NoRow}]
Table == [Jobs -> JobRow \cup {NoRow}]
Listing == [Jobs -> Phases]

\* A transaction on the Job table: the rows as loaded, as they are to become, and
\* the jobs whose row gets a new update_time and is written in any case.
Transaction == [base : Table, new : Table, upserted : SUBSET Jobs]
NoTransaction == [upserted |-> {}]

Idle == [pc |-> "idle"]
Working ==
    [pc : {"collecting"}, listing : Listing, work : Stats, todo : SUBSET Jobs,
     fetching : SUBSET Jobs]
Committing == [pc : {"committing"}, listing : Listing, work : Stats, tx : Transaction]
Refreshing ==
    [pc : {"insert", "clean", "finalize", "backfill"}, listing : Listing,
     liststats : Stats, tx : Transaction \cup {NoTransaction}]

Has(t, j, status) == t[j] # NoRow /\ t[j].status = status

Init ==
    /\ phase = [j \in Jobs |-> "new"]
    /\ log = [j \in Jobs |-> 0]
    /\ stats = [j \in Jobs |-> NoRow]
    /\ table = [j \in Jobs |-> NoRow]
    /\ collector = Idle
    /\ request = [r \in Requests |-> Idle]
    /\ notices = [j \in Jobs |-> 0]
    /\ asked = 0
    /\ crashes = 0

-----------------------------------------------------------------------------
(* The node.  A job that is cancelled or killed ends with a log that is      *)
(* short of Full; one that Scrapyd has dropped, or a restart lost, is gone.  *)

Advance(j, from, to) ==
    /\ phase[j] = from
    /\ phase' = [phase EXCEPT ![j] = to]
    /\ UNCHANGED <<log, stats, table, collector, request, notices, asked, crashes>>

Submit(j) == Advance(j, "new", "pending")
Start(j) == Advance(j, "pending", "running")
Finish(j) == Advance(j, "running", "finished")
Forget(j) == \E p \in Listed : Advance(j, p, "gone")

WriteLog(j) ==
    /\ phase[j] = "running"
    /\ log[j] < Full
    /\ log' = [log EXCEPT ![j] = @ + 1]
    /\ UNCHANGED <<phase, stats, table, collector, request, notices, asked, crashes>>

-----------------------------------------------------------------------------
(* Applying a listing l to the Job table, with the job_stats rows s.  db is  *)
(* the table as the queries see it, t the session's rows so far.             *)

PagesFrom(row, s) ==
    IF s # NoRow THEN s.parsed ELSE IF row # NoRow THEN row.pages ELSE 0

CopiesStatsRow(row, seen, s) ==
    [status |-> seen, pages |-> IF seen = "pending" THEN 0 ELSE s]

UpsertedRow(row, seen, s) ==
    [status |-> seen, pages |-> IF seen = "pending" THEN 0 ELSE PagesFrom(row, s)]

Upsert(t, l, s) ==
    [j \in Jobs |-> IF l[j] \in Listed THEN UpsertedRow(t[j], l[j], s[j]) ELSE t[j]]

CleanPending(db, l, t) ==
    [j \in Jobs |-> IF Has(db, j, "pending") /\ l[j] # "pending" THEN NoRow ELSE t[j]]

WrongStatus(db, j) == Has(db, j, "pending")

Finalizable(db, j) == Has(db, j, "running")

FinalizeStale(db, l, s, t) ==
    [j \in Jobs |->
        IF Finalizable(db, j) /\ l[j] \notin Listed
        THEN [status |-> "finished", pages |-> PagesFrom(t[j], s[j])]
        ELSE t[j]]

Backfill(t, s, shown) ==
    [j \in Jobs |->
        IF j \in shown /\ t[j] # NoRow /\ t[j].status # "pending" /\ t[j].pages = 0
        THEN [t[j] EXCEPT !.pages = PagesFrom(t[j], s[j])]
        ELSE t[j]]

Written(tx) == tx.upserted \cup {j \in Jobs : tx.new[j] # tx.base[j]}

\* An INSERT meets another writer's row (unique constraint), or an UPDATE finds
\* its row deleted.  A DELETE that finds no row only warns.
Conflict(tx) ==
    \E j \in Written(tx) : tx.new[j] # NoRow /\ (tx.base[j] = NoRow) # (table[j] = NoRow)

MergedColumn(loaded, set, current) == IF set = loaded THEN current ELSE set

MergedRow(base, new, current) ==
    IF base = NoRow \/ new = NoRow
    THEN new
    ELSE [status |-> MergedColumn(base.status, new.status, current.status),
          pages |-> MergedColumn(base.pages, new.pages, current.pages)]

Merged(tx) ==
    [j \in Jobs |->
        IF j \in Written(tx) THEN MergedRow(tx.base[j], tx.new[j], table[j]) ELSE table[j]]

-----------------------------------------------------------------------------
(* The collector.  A listing that cannot be fetched leaves nothing to commit *)
(* and is no step; logs are visited in the listing's order, here in any.     *)

BeginCycle ==
    /\ collector.pc = "idle"
    /\ collector' = [pc |-> "collecting", listing |-> phase, work |-> stats,
                     todo |-> {j \in Jobs : phase[j] \in Started}, fetching |-> {}]
    /\ UNCHANGED <<phase, log, stats, table, request, notices, asked, crashes>>

Collecting(j) == collector.pc = "collecting" /\ j \in collector.todo

\* No extension of the log answers: the job is passed over.
ProbeFailed(j) ==
    /\ Collecting(j)
    /\ collector.fetching = {}
    /\ collector' = [collector EXCEPT !.todo = @ \ {j}]
    /\ UNCHANGED <<phase, log, stats, table, request, notices, asked, crashes>>

NothingNew(row, j) ==
    /\ row # NoRow
    /\ row.size = log[j]
    /\ row.parsed = Full \/ collector.listing[j] # "running"

Resized(row, n) ==
    IF row = NoRow THEN [size |-> n, parsed |-> 0, told |-> FALSE]
                   ELSE [row EXCEPT !.size = n]

\* _probe: the size is stored before the body is fetched.
Probe(j) ==
    /\ Collecting(j)
    /\ collector.fetching = {}
    /\ log[j] > 0
    /\ collector' =
         IF NothingNew(collector.work[j], j)
         THEN [collector EXCEPT !.todo = @ \ {j}]
         ELSE [collector EXCEPT !.work[j] = Resized(@, log[j]), !.fetching = {j}]
    /\ UNCHANGED <<phase, log, stats, table, request, notices, asked, crashes>>

\* The body did not arrive, or is larger than MAX_LOG_BYTES.
FetchFailed(j) ==
    /\ Collecting(j)
    /\ j \in collector.fetching
    /\ collector' = [collector EXCEPT !.todo = @ \ {j}, !.fetching = {}]
    /\ UNCHANGED <<phase, log, stats, table, request, notices, asked, crashes>>

ForgetsAlertState(row, n) == n = Full

NoticeDue(row, n) == n = Full /\ ~row.told

ParsedRow(row, n) == [row EXCEPT !.parsed = n, !.told = @ \/ NoticeDue(row, n)]

\* Parse the log and evaluate the alerts of the job.  The alert state is set
\* whether or not a notice goes out (working time, a disabled group).
Fetch(j) ==
    /\ Collecting(j)
    /\ j \in collector.fetching
    /\ collector' = [collector EXCEPT !.todo = @ \ {j}, !.fetching = {},
                                      !.work[j] = ParsedRow(@, log[j])]
    /\ \E dispatched \in {FALSE, NoticeDue(collector.work[j], log[j])} :
         notices' = [notices EXCEPT ![j] = IF dispatched THEN @ + 1 ELSE @]
    /\ UNCHANGED <<phase, log, stats, table, request, asked, crashes>>

\* sync_server_jobs: three passes over what the queries find in the database.
Synced(db, l, s) == FinalizeStale(db, l, s, CleanPending(db, l, Upsert(db, l, s)))

SyncServerJobs ==
    /\ collector.pc = "collecting"
    /\ collector.todo = {}
    /\ LET l == collector.listing
       IN  collector' =
             [pc |-> "committing", listing |-> l, work |-> collector.work,
              tx |-> [base |-> table, new |-> Synced(table, l, collector.work),
                      upserted |-> {j \in Jobs : l[j] \in Listed}]]
    /\ UNCHANGED <<phase, log, stats, table, request, notices, asked, crashes>>

\* The session's commit, or the rollback of everything if a row is refused.
EndCycle ==
    /\ collector.pc = "committing"
    /\ IF Conflict(collector.tx)
       THEN UNCHANGED <<stats, table>>
       ELSE stats' = collector.work /\ table' = Merged(collector.tx)
    /\ collector' = Idle
    /\ UNCHANGED <<phase, log, request, notices, asked, crashes>>

-----------------------------------------------------------------------------
(* api_jobs.                                                                 *)

BeginRequest(r) ==
    /\ request[r].pc = "idle"
    /\ asked < MaxRequests
    /\ asked' = asked + 1
    /\ request' = [request EXCEPT ![r] = [pc |-> "insert", listing |-> phase,
                                          liststats |-> stats, tx |-> NoTransaction]]
    /\ UNCHANGED <<phase, log, stats, table, collector, notices, crashes>>

\* What the next transaction of a request may be to do to the rows it loads; the
\* backfill looks at one page of them.
Intended(q) ==
    CASE q.pc = "insert"   -> {Upsert(table, q.listing, q.liststats)}
      [] q.pc = "clean"    -> {CleanPending(table, q.listing, table)}
      [] q.pc = "finalize" -> {FinalizeStale(table, q.listing, q.liststats, table)}
      [] q.pc = "backfill" -> {Backfill(table, q.liststats, shown) : shown \in SUBSET Jobs}

LoadRows(r) ==
    /\ request[r].pc # "idle"
    /\ request[r].tx = NoTransaction
    /\ \E new \in Intended(request[r]) :
         request' = [request EXCEPT ![r].tx =
           [base |-> table, new |-> new,
            upserted |-> {j \in Jobs : request[r].pc = "insert"
                                       /\ request[r].listing[j] \in Listed}]]
    /\ UNCHANGED <<phase, log, stats, table, collector, notices, asked, crashes>>

After(pc) ==
    CASE pc = "insert" -> "clean" [] pc = "clean" -> "finalize" [] pc = "finalize" -> "backfill"

Continued(q) == [q EXCEPT !.pc = After(q.pc), !.tx = NoTransaction]

\* An error ends the request with a JSON answer; the transactions before stay.
CommitRows(r) ==
    /\ request[r].pc # "idle"
    /\ request[r].tx # NoTransaction
    /\ LET conflict == Conflict(request[r].tx)
       IN  /\ table' = IF conflict THEN table ELSE Merged(request[r].tx)
           /\ request' = [request EXCEPT ![r] =
                IF conflict \/ @.pc = "backfill" THEN Idle ELSE Continued(@)]
    /\ UNCHANGED <<phase, log, stats, collector, notices, asked, crashes>>

Crash ==
    /\ crashes < MaxCrashes
    /\ crashes' = crashes + 1
    /\ collector' = Idle
    /\ request' = [r \in Requests |-> Idle]
    /\ UNCHANGED <<phase, log, stats, table, notices, asked>>

-----------------------------------------------------------------------------
NodeStep == \E j \in Jobs : Submit(j) \/ Start(j) \/ WriteLog(j) \/ Finish(j) \/ Forget(j)

CollectorStep ==
    \/ BeginCycle
    \/ \E j \in Jobs : ProbeFailed(j) \/ Probe(j) \/ FetchFailed(j) \/ Fetch(j)
    \/ SyncServerJobs
    \/ EndCycle

RequestStep(r) == LoadRows(r) \/ CommitRows(r)

Next ==
    \/ NodeStep
    \/ CollectorStep
    \/ \E r \in Requests : BeginRequest(r) \/ RequestStep(r)
    \/ Crash

Spec == Init /\ [][Next]_vars

\* The interval job keeps running, its requests have timeouts and transactions
\* end; a log that can be read again and again is not unreadable every time.
FairSpec ==
    /\ Spec
    /\ WF_vars(CollectorStep)
    /\ \A r \in Requests : WF_vars(RequestStep(r))
    /\ \A j \in Jobs : SF_vars(Probe(j)) /\ SF_vars(Fetch(j))

-----------------------------------------------------------------------------
(* The shape of the state: the rows of both tables, and what the collector    *)
(* and each request of api_jobs hold between their steps.                     *)
TypeOK ==
    /\ phase \in Listing
    /\ log \in [Jobs -> 0..Full]
    /\ stats \in Stats
    /\ table \in Table
    /\ \/ collector = Idle
       \/ /\ collector \in Working
          /\ \A j \in collector.fetching : collector.work[j] # NoRow
       \/ collector \in Committing
    /\ \A r \in Requests : request[r] = Idle \/ request[r] \in Refreshing
    /\ notices \in [Jobs -> Nat]
    /\ asked \in 0..MaxRequests
    /\ crashes \in 0..MaxCrashes

\* A finish notice is sent only while the committed alert_state does not say so:
\* it can be repeated only because a cycle was lost after sending it (a conflict
\* with api_jobs, a crash), never by a later cycle that read its result
\* (evaluate_alerts under the single commit of collect_all).
NoRepeatOnceCommitted ==
    [][\A j \in Jobs : notices'[j] # notices[j] => stats[j] = NoRow \/ ~stats[j].told]_vars

\* The Job table agrees with what the node says and job_stats holds of a job.
Shows(j, p) ==
    IF p \in Listed
    THEN /\ Has(table, j, p)
         /\ p = "pending" \/ stats[j] = NoRow \/ table[j].pages = stats[j].parsed
    ELSE table[j] = NoRow \/ table[j].status = "finished"

\* Whatever stale listings, conflicts and crashes did on the way, once a job has
\* come to rest on the node its row comes to rest in agreement with it: listed
\* jobs with their status and the parsed figures, jobs that are gone finished or
\* without a row (sync_server_jobs and api_jobs on one table).
TableSettles ==
    \A j \in Jobs : \A p \in Phases : <>[](phase[j] = p) => <>[]Shows(j, p)

\* A committed cycle leaves a row for every job of its listing ("keeps the Job
\* table fresh", services/jobs_sync.py:5).
CycleKeepsListed ==
    [][EndCycle /\ ~Conflict(collector.tx)
         => \A j \in Jobs : collector.listing[j] \in Listed => table'[j] # NoRow]_vars

\* The log of a finished job that stays readable is parsed ("fetches every node's
\* job logs over HTTP, parses them", services/logstats.py:4).
FinishedLogParsed ==
    \A j \in Jobs :
        phase[j] = "finished" /\ log[j] = Full
            ~> phase[j] = "gone" \/ (stats[j] # NoRow /\ stats[j].parsed = Full)
=============================================================================
