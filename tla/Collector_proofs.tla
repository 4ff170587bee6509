-------------------------- MODULE Collector_proofs --------------------------
(* Proofs about Collector: type correctness, and that a finish notice is      *)
(* repeated only while nothing committed says it was sent.                    *)
EXTENDS Collector, TLAPS

(* A transaction's rows and what its commit leaves are rows of the table.     *)

LEMMA UpsertType ==
    ASSUME NEW t \in Table, NEW l \in Listing, NEW s \in Stats
    PROVE  Upsert(t, l, s) \in Table
<1>1. ASSUME NEW j \in Jobs, l[j] \in Listed
      PROVE  UpsertedRow(t[j], l[j], s[j]) \in JobRow
  BY <1>1, FullAssumption
     DEF Table, Stats, StatsRow, JobRow, UpsertedRow, PagesFrom
<1> QED BY <1>1 DEF Upsert, Table

LEMMA CleanPendingType ==
    ASSUME NEW t \in Table, NEW db, NEW l
    PROVE  CleanPending(db, l, t) \in Table
BY DEF CleanPending, Table

LEMMA FinalizeStaleType ==
    ASSUME NEW t \in Table, NEW db, NEW l, NEW s \in Stats
    PROVE  FinalizeStale(db, l, s, t) \in Table
<1>1. ASSUME NEW j \in Jobs
      PROVE  [status |-> "finished", pages |-> PagesFrom(t[j], s[j])] \in JobRow
  BY FullAssumption DEF Table, Stats, StatsRow, JobRow, PagesFrom, Listed, Started
<1> QED BY <1>1 DEF FinalizeStale, Table

LEMMA BackfillType ==
    ASSUME NEW t \in Table, NEW s \in Stats, NEW shown
    PROVE  Backfill(t, s, shown) \in Table
<1>1. ASSUME NEW j \in Jobs, t[j] # NoRow
      PROVE  [t[j] EXCEPT !.pages = PagesFrom(t[j], s[j])] \in JobRow
  BY <1>1, FullAssumption DEF Table, Stats, StatsRow, JobRow, PagesFrom
<1> QED BY <1>1 DEF Backfill, Table

LEMMA MergedType ==
    ASSUME NEW tx \in Transaction, table \in Table, ~Conflict(tx)
    PROVE  Merged(tx) \in Table
<1> SUFFICES ASSUME NEW j \in Jobs, j \in Written(tx)
             PROVE  MergedRow(tx.base[j], tx.new[j], table[j]) \in JobRow \cup {NoRow}
  BY DEF Merged, Table
<1>1. /\ tx.base[j] \in JobRow \cup {NoRow}
      /\ tx.new[j] \in JobRow \cup {NoRow}
      /\ table[j] \in JobRow \cup {NoRow}
  BY DEF Transaction, Table
<1>2. CASE tx.base[j] = NoRow \/ tx.new[j] = NoRow
  BY <1>1, <1>2 DEF MergedRow
<1>3. CASE tx.base[j] # NoRow /\ tx.new[j] # NoRow
  <2>1. table[j] \in JobRow
    BY <1>1, <1>3 DEF Conflict
  <2> QED BY <1>1, <1>3, <2>1 DEF MergedRow, MergedColumn, JobRow
<1> QED BY <1>2, <1>3
-----------------------------------------------------------------------------
(* The collector's own steps.                                                 *)

LEMMA InitTypeOK == Init => TypeOK
  BY FullAssumption, BoundAssumption
  DEF Init, TypeOK, Listing, Phases, Stats, Table

LEMMA NodeTypeOK == TypeOK /\ NodeStep => TypeOK'
<1> SUFFICES ASSUME TypeOK, NEW j \in Jobs,
                    Submit(j) \/ Start(j) \/ WriteLog(j) \/ Finish(j) \/ Forget(j)
             PROVE  TypeOK'
  BY DEF NodeStep
<1>1. CASE WriteLog(j)
  <2>1. log' \in [Jobs -> 0..Full]
    BY <1>1, FullAssumption DEF WriteLog, TypeOK
  <2> QED BY <1>1, <2>1 DEF WriteLog, TypeOK
<1>2. ASSUME NEW from, NEW to \in Phases, Advance(j, from, to) PROVE TypeOK'
  BY <1>2 DEF Advance, TypeOK, Listing
<1>3. CASE Submit(j) \/ Start(j) \/ Finish(j) \/ Forget(j)
  BY <1>2, <1>3 DEF Submit, Start, Finish, Forget, Phases, Listed, Started
<1> QED BY <1>1, <1>3

LEMMA BeginCycleTypeOK == TypeOK /\ BeginCycle => TypeOK'
<1> SUFFICES ASSUME TypeOK, BeginCycle PROVE TypeOK'
  OBVIOUS
<1>1. collector' \in Working
  BY DEF BeginCycle, TypeOK, Working
<1> QED BY <1>1 DEF BeginCycle, TypeOK

LEMMA LogTypeOK ==
    ASSUME TypeOK, NEW j \in Jobs,
           ProbeFailed(j) \/ Probe(j) \/ FetchFailed(j) \/ Fetch(j)
    PROVE  TypeOK'
<1>1. /\ collector \in Working
      /\ \A i \in collector.fetching : collector.work[i] # NoRow
  BY DEF ProbeFailed, Probe, FetchFailed, Fetch, Collecting, TypeOK, Idle, Committing
<1>2. CASE ProbeFailed(j)
  <2>1. collector' \in Working /\ \A i \in collector'.fetching : collector'.work[i] # NoRow
    BY <1>1, <1>2 DEF ProbeFailed, Working
  <2> QED BY <1>2, <2>1 DEF ProbeFailed, TypeOK
<1>3. CASE FetchFailed(j)
  <2>1. collector' \in Working /\ \A i \in collector'.fetching : collector'.work[i] # NoRow
    BY <1>1, <1>3 DEF FetchFailed, Working
  <2> QED BY <1>3, <2>1 DEF FetchFailed, TypeOK
<1>4. CASE Probe(j)
  <2> DEFINE row == Resized(collector.work[j], log[j])
  <2>1. row \in StatsRow /\ row # NoRow
    <3>1. log[j] \in 1..Full /\ collector.work[j] \in StatsRow \cup {NoRow}
      BY <1>1, <1>4, FullAssumption DEF Probe, TypeOK, Working, Stats
    <3>2. row \in StatsRow
      BY <3>1, FullAssumption DEF Resized, StatsRow
    <3> QED BY <3>2, RowAssumption
  <2>2. collector' \in Working /\ \A i \in collector'.fetching : collector'.work[i] # NoRow
    <3>1. CASE NothingNew(collector.work[j], j)
      BY <1>1, <1>4, <3>1 DEF Probe, Working
    <3>2. CASE ~NothingNew(collector.work[j], j)
      <4> HIDE DEF row
      <4>1. collector' = [collector EXCEPT !.work = [@ EXCEPT ![j] = row],
                                           !.fetching = {j}]
        BY <1>4, <3>2 DEF Probe, row
      <4> QED BY <1>1, <2>1, <4>1 DEF Working, Stats
    <3> QED BY <3>1, <3>2
  <2> QED BY <1>4, <2>2 DEF Probe, TypeOK
<1>5. CASE Fetch(j)
  <2> DEFINE row == ParsedRow(collector.work[j], log[j])
  <2>1. row \in StatsRow /\ row # NoRow
    <3>1. collector.work[j] \in StatsRow /\ log[j] \in 0..Full
      BY <1>1, <1>5 DEF Fetch, Working, Stats, TypeOK
    <3>2. row \in StatsRow
      BY <3>1 DEF ParsedRow, NoticeDue, StatsRow
    <3> QED BY <3>2, RowAssumption
  <2>2. collector' \in Working /\ \A i \in collector'.fetching : collector'.work[i] # NoRow
    <3> HIDE DEF row
    <3>1. collector' = [collector EXCEPT !.todo = @ \ {j}, !.fetching = {},
                                         !.work = [@ EXCEPT ![j] = row]]
      BY <1>1, <1>5 DEF Fetch, Working, Stats, row
    <3> QED BY <1>1, <2>1, <3>1 DEF Working, Stats
  <2>3. notices' \in [Jobs -> Nat]
    BY <1>5 DEF Fetch, TypeOK
  <2> QED BY <1>5, <2>2, <2>3 DEF Fetch, TypeOK
<1> QED BY <1>2, <1>3, <1>4, <1>5

LEMMA SyncType ==
    ASSUME NEW t \in Table, NEW l \in Listing, NEW s \in Stats
    PROVE  Synced(t, l, s) \in Table
BY UpsertType, CleanPendingType, FinalizeStaleType DEF Synced

LEMMA SyncTypeOK == TypeOK /\ SyncServerJobs => TypeOK'
<1> SUFFICES ASSUME TypeOK, SyncServerJobs PROVE TypeOK'
  OBVIOUS
<1>1. collector \in Working
  BY DEF SyncServerJobs, TypeOK, Idle, Committing
<1>2. Synced(table, collector.listing, collector.work) \in Table
  BY <1>1, SyncType DEF Working, TypeOK
<1>3. collector' \in Committing
  BY <1>1, <1>2 DEF SyncServerJobs, Committing, Transaction, Working, TypeOK
<1> QED BY <1>3 DEF SyncServerJobs, TypeOK

LEMMA EndCycleTypeOK == TypeOK /\ EndCycle => TypeOK'
<1> SUFFICES ASSUME TypeOK, EndCycle PROVE TypeOK'
  OBVIOUS
<1>1. collector \in Committing
  BY DEF EndCycle, TypeOK, Idle, Working
<1>2. stats' \in Stats /\ table' \in Table
  <2>1. CASE Conflict(collector.tx)
    BY <2>1 DEF EndCycle, TypeOK
  <2>2. CASE ~Conflict(collector.tx)
    BY <1>1, <2>2, MergedType DEF EndCycle, TypeOK, Committing
  <2> QED BY <2>1, <2>2
<1> QED BY <1>2 DEF EndCycle, TypeOK

-----------------------------------------------------------------------------
(* The steps of api_jobs, and a crash.                                        *)

LEMMA BeginRequestTypeOK ==
    ASSUME TypeOK, NEW r \in Requests, BeginRequest(r)
    PROVE  TypeOK'
<1>1. [pc |-> "insert", listing |-> phase, liststats |-> stats, tx |-> NoTransaction]
        \in Refreshing
  BY DEF Refreshing, TypeOK
<1>2. \A q \in Requests : request'[q] = Idle \/ request'[q] \in Refreshing
  BY <1>1 DEF BeginRequest, TypeOK
<1>3. asked' \in 0..MaxRequests
  BY BoundAssumption DEF BeginRequest, TypeOK
<1> QED BY <1>2, <1>3 DEF BeginRequest, TypeOK

LEMMA IntendedType ==
    ASSUME TypeOK, NEW q \in Refreshing, NEW new \in Intended(q)
    PROVE  new \in Table
<1>1. q.listing \in Listing /\ q.liststats \in Stats /\ table \in Table
  BY DEF Refreshing, TypeOK
<1>2. CASE q.pc = "insert"
  BY <1>1, <1>2, UpsertType DEF Intended
<1>3. CASE q.pc = "clean"
  BY <1>1, <1>3, CleanPendingType DEF Intended
<1>4. CASE q.pc = "finalize"
  BY <1>1, <1>4, FinalizeStaleType DEF Intended
<1>5. CASE q.pc = "backfill"
  BY <1>1, <1>5, BackfillType DEF Intended
<1> QED BY <1>2, <1>3, <1>4, <1>5 DEF Refreshing

LEMMA LoadRowsTypeOK ==
    ASSUME TypeOK, NEW r \in Requests, LoadRows(r)
    PROVE  TypeOK'
<1>1. request[r] \in Refreshing
  BY DEF LoadRows, TypeOK, Idle
<1>2. PICK new \in Intended(request[r]) :
        request' = [request EXCEPT ![r].tx =
           [base |-> table, new |-> new,
            upserted |-> {j \in Jobs : request[r].pc = "insert"
                                       /\ request[r].listing[j] \in Listed}]]
  BY DEF LoadRows
<1>3. request'[r] \in Refreshing
  <2>1. new \in Table
    BY <1>1, IntendedType
  <2> QED BY <1>1, <1>2, <2>1 DEF Refreshing, Transaction, TypeOK
<1>4. \A q \in Requests : request'[q] = Idle \/ request'[q] \in Refreshing
  BY <1>2, <1>3 DEF TypeOK
<1> QED BY <1>4 DEF LoadRows, TypeOK

LEMMA CommitRowsTypeOK ==
    ASSUME TypeOK, NEW r \in Requests, CommitRows(r)
    PROVE  TypeOK'
<1>1. request[r] \in Refreshing /\ request[r].tx \in Transaction
  BY DEF CommitRows, TypeOK, Idle, Refreshing
<1>2. table' \in Table
  BY <1>1, MergedType DEF CommitRows, TypeOK
<1>3. request[r].pc # "backfill" => Continued(request[r]) \in Refreshing
  BY <1>1 DEF Refreshing, After, Continued
<1>4. \A q \in Requests : request'[q] = Idle \/ request'[q] \in Refreshing
  BY <1>3 DEF CommitRows, TypeOK
<1> QED BY <1>2, <1>4 DEF CommitRows, TypeOK

LEMMA CrashTypeOK == TypeOK /\ Crash => TypeOK'
  BY BoundAssumption DEF Crash, TypeOK

LEMMA NextTypeOK == TypeOK /\ [Next]_vars => TypeOK'
<1> SUFFICES ASSUME TypeOK, [Next]_vars PROVE TypeOK'
  OBVIOUS
<1>1. CASE CollectorStep
  BY <1>1, BeginCycleTypeOK, LogTypeOK, SyncTypeOK, EndCycleTypeOK DEF CollectorStep
<1>2. CASE \E r \in Requests : BeginRequest(r) \/ RequestStep(r)
  BY <1>2, BeginRequestTypeOK, LoadRowsTypeOK, CommitRowsTypeOK DEF RequestStep
<1>3. CASE UNCHANGED vars
  BY <1>3 DEF vars, TypeOK
<1> QED BY <1>1, <1>2, <1>3, NodeTypeOK, CrashTypeOK DEF Next

\* Every reachable state of the collector, the requests and both tables has the
\* shape TypeOK says (logstats.py, jobs_sync.py, api_jobs).
THEOREM TypeCorrect == Spec => []TypeOK
<1>1. Init => TypeOK
  BY InitTypeOK
<1>2. TypeOK /\ [Next]_vars => TypeOK'
  BY NextTypeOK
<1> QED BY <1>1, <1>2, PTL DEF Spec

-----------------------------------------------------------------------------
(* While a cycle is at work, its copy of the job_stats rows knows of every    *)
(* notice the committed rows know of: nobody else writes them.                *)

Told(s, j) == s[j] # NoRow /\ s[j].told

WorkKnows ==
    collector.pc = "collecting" => \A j \in Jobs : Told(stats, j) => Told(collector.work, j)

LEMMA InitWorkKnows == Init => WorkKnows
  BY DEF Init, WorkKnows, Idle

LEMMA LogWorkKnows ==
    ASSUME TypeOK, WorkKnows, NEW j \in Jobs,
           ProbeFailed(j) \/ Probe(j) \/ FetchFailed(j) \/ Fetch(j)
    PROVE  WorkKnows'
<1>1. collector \in Working
  BY DEF ProbeFailed, Probe, FetchFailed, Fetch, Collecting, TypeOK, Idle, Committing
<1>2. stats' = stats
  BY DEF ProbeFailed, Probe, FetchFailed, Fetch
<1>3. CASE collector'.work = collector.work
  BY <1>1, <1>2, <1>3 DEF WorkKnows, Told, Working
<1>4. ASSUME NEW row \in StatsRow, Told(collector.work, j) => row.told,
             collector'.work = [collector.work EXCEPT ![j] = row]
      PROVE  WorkKnows'
  <2>1. \A i \in Jobs : Told(collector.work, i) => Told(collector'.work, i)
    BY <1>1, <1>4, RowAssumption DEF Told, Working, Stats
  <2> QED BY <1>1, <1>2, <2>1 DEF WorkKnows, Told, Working
<1>5. CASE Fetch(j)
  <2> DEFINE row == ParsedRow(collector.work[j], log[j])
  <2>1. collector.work[j] \in StatsRow /\ log[j] \in 0..Full
    BY <1>1, <1>5 DEF Fetch, Working, Stats, TypeOK, Idle, Committing
  <2>2. row \in StatsRow /\ (collector.work[j].told => row.told)
    BY <2>1 DEF ParsedRow, NoticeDue, StatsRow
  <2>3. collector'.work = [collector.work EXCEPT ![j] = row]
    BY <1>1, <1>5 DEF Fetch, Working
  <2> QED BY <1>4, <2>2, <2>3 DEF Told
<1>6. CASE Probe(j) /\ ~NothingNew(collector.work[j], j)
  <2> DEFINE row == Resized(collector.work[j], log[j])
  <2>1. log[j] \in 1..Full /\ collector.work[j] \in StatsRow \cup {NoRow}
    BY <1>1, <1>6, FullAssumption DEF Probe, TypeOK, Working, Stats
  <2>2. row \in StatsRow /\ (Told(collector.work, j) => row.told)
    BY <2>1, FullAssumption DEF Resized, StatsRow, Told
  <2>3. collector'.work = [collector.work EXCEPT ![j] = row]
    BY <1>1, <1>6 DEF Probe, Working
  <2> QED BY <1>4, <2>2, <2>3
<1>7. CASE ProbeFailed(j) \/ FetchFailed(j) \/ (Probe(j) /\ NothingNew(collector.work[j], j))
  BY <1>1, <1>3, <1>7 DEF ProbeFailed, FetchFailed, Probe, Working
<1> QED BY <1>5, <1>6, <1>7

LEMMA NextWorkKnows == TypeOK /\ WorkKnows /\ [Next]_vars => WorkKnows'
<1> SUFFICES ASSUME TypeOK, WorkKnows, [Next]_vars PROVE WorkKnows'
  OBVIOUS
<1>1. CASE UNCHANGED <<collector, stats>>
  BY <1>1 DEF WorkKnows, Told
<1>2. CASE NodeStep
  BY <1>1, <1>2 DEF NodeStep, Submit, Start, Finish, Forget, Advance, WriteLog
<1>3. CASE BeginCycle
  BY <1>3 DEF BeginCycle, WorkKnows, Told
<1>4. CASE SyncServerJobs \/ EndCycle \/ Crash
  BY <1>4 DEF SyncServerJobs, EndCycle, Crash, Idle, WorkKnows
<1>5. CASE \E r \in Requests : BeginRequest(r) \/ RequestStep(r)
  BY <1>1, <1>5 DEF BeginRequest, RequestStep, LoadRows, CommitRows
<1>6. CASE UNCHANGED vars
  BY <1>1, <1>6 DEF vars
<1> QED BY <1>2, <1>3, <1>4, <1>5, <1>6, LogWorkKnows DEF Next, CollectorStep

LEMMA NoticeStep ==
    TypeOK /\ WorkKnows /\ [Next]_vars
      => [\A j \in Jobs : notices'[j] # notices[j] => stats[j] = NoRow \/ ~stats[j].told]_vars
<1> SUFFICES ASSUME TypeOK, WorkKnows, Next, NEW j \in Jobs, notices'[j] # notices[j]
             PROVE  ~Told(stats, j)
  BY DEF Told, vars
<1>1. PICK i \in Jobs : Fetch(i)
  BY DEF Next, NodeStep, CollectorStep, RequestStep, Submit, Start, WriteLog, Finish,
         Forget, Advance, BeginCycle, ProbeFailed, Probe, FetchFailed, SyncServerJobs,
         EndCycle, BeginRequest, LoadRows, CommitRows, Crash
<1>2. i = j /\ NoticeDue(collector.work[i], log[i])
  BY <1>1 DEF Fetch, TypeOK
<1>3. ~Told(collector.work, j)
  BY <1>2 DEF NoticeDue, Told
<1> QED BY <1>1, <1>3 DEF WorkKnows, Fetch, Collecting

\* A finish notice is dispatched only while no committed alert_state says that it
\* was (evaluate_alerts inside the single commit of collect_all).
THEOREM NoRepeatCorrect == Spec => NoRepeatOnceCommitted
<1>1. Init => TypeOK /\ WorkKnows
  BY InitTypeOK, InitWorkKnows
<1>2. TypeOK /\ WorkKnows /\ [Next]_vars => (TypeOK /\ WorkKnows)'
  BY NextTypeOK, NextWorkKnows
<1>3. TypeOK /\ WorkKnows /\ [Next]_vars
        => [\A j \in Jobs : notices'[j] # notices[j] => stats[j] = NoRow \/ ~stats[j].told]_vars
  BY NoticeStep
<1> QED BY <1>1, <1>2, <1>3, PTL DEF Spec, NoRepeatOnceCommitted
=============================================================================
