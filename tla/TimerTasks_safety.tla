------------------------- MODULE TimerTasks_safety -------------------------
(* The safety properties of TimerTasks, proved from its inductive invariant, *)
(* and the refinement: TimerTasks implements TaskHistory.                    *)
(* Most steps touch one firing, or none; the lemmas of the first part say    *)
(* what is left to prove then.                                               *)
EXTENDS TimerTasks_proofs

RunInv(r) == ExecutorInv(r) /\ TableInv(r) /\ CountInv(r) /\ AcceptedInv(r)
Early(r) == run[r].pc \in {"idle", "read", "orphan", "create"}

USE DEF processVars, taskVars, tableVars

-----------------------------------------------------------------------------
(* What a step leaves alone.                                               *)

\* The rows, the result and the counters of firing r are as before.
SameTables(r) ==
    /\ RowsOf({r})' = RowsOf({r})
    /\ r \in result' <=> r \in result
    /\ count'[r] = count[r]
    /\ accepted'[r] = accepted[r]

LEMMA SameRun ==
  ASSUME NEW r \in Run, RunInv(r), run'[r] = run[r], SameTables(r),
         r \in result => task'[run[r].task] = task[run[r].task]
  PROVE  RunInv(r)'
<1>1. /\ Working(r)' = Working(r) /\ Holding(r)' = Holding(r)
      /\ Deferred(r)' = Deferred(r) /\ Pending(r)' = Pending(r)
      /\ HeldPass(r)' = HeldPass(r) /\ HeldFail(r)' = HeldFail(r)
  BY DEF Working, Holding, Deferred, Pending, HeldPass, HeldFail
<1>2. RowsOf({r}) = {x \in rows : x.run = r} /\ RowsOf({r})' = {x \in rows' : x.run = r}
  BY DEF RowsOf
<1>3. Stored(r)' = Stored(r)
  BY DEF Stored, SameTables
<1>4. PassRows(r)' = PassRows(r) /\ FailRows(r)' = FailRows(r)
  BY <1>2 DEF PassRows, FailRows, SameTables
<1>5. ExecutorInv(r)'
  BY <1>1 DEF RunInv, ExecutorInv
<1>6. TableInv(r)'
  BY <1>1, <1>3 DEF RunInv, TableInv, SameTables
<1>7. CountInv(r)'
  BY <1>1, <1>4 DEF RunInv, CountInv, SameTables
<1>8. AcceptedInv(r)'
  BY <1>1 DEF RunInv, AcceptedInv, SameTables
<1>9. QED
  BY <1>5, <1>6, <1>7, <1>8 DEF RunInv

\* A firing that has no result yet, before and after.
LEMMA EarlyRun ==
  ASSUME NEW r \in Run, RunInv(r), Early(r), Early(r)', SameTables(r), ExecutorInv(r)'
  PROVE  RunInv(r)'
<1>1. ~Working(r) /\ ~Working(r)' /\ run[r].pc \notin {"done", "lost"}
      /\ run'[r].pc \notin {"done", "lost"}
  BY DEF Early, Working
<1>2. r \notin result /\ RowsOf({r}) = {}
  BY <1>1 DEF RunInv, TableInv
<1>3. r \notin result' /\ RowsOf({r})' = {} /\ Stored(r)' = {}
  BY <1>2 DEF SameTables, Stored
<1>4. TableInv(r)'
  BY <1>1, <1>3 DEF TableInv
<1>5. CountInv(r)'
  BY <1>1, <1>3, FS_EmptySet DEF RunInv, CountInv, SameTables
<1>6. AcceptedInv(r)'
  BY <1>1 DEF RunInv, AcceptedInv, SameTables, Early
<1>7. QED
  BY <1>4, <1>5, <1>6 DEF RunInv

\* A firing whose result, with all its rows, has been deleted.
LEMMA DroppedRun ==
  ASSUME NEW r \in Run, RunInv(r), run'[r] = run[r], r \notin result',
         RowsOf({r})' = {}, count'[r] = count[r], accepted'[r] = accepted[r]
  PROVE  RunInv(r)'
<1>1. Working(r)' = Working(r) /\ Holding(r)' = Holding(r)
      /\ Deferred(r)' = Deferred(r) /\ Pending(r)' = Pending(r)
  BY DEF Working, Holding, Deferred, Pending
<1>2. Stored(r)' = {}
  BY DEF Stored
<1>3. ExecutorInv(r)' /\ TableInv(r)'
  BY <1>1, <1>2 DEF RunInv, ExecutorInv, TableInv
<1>4. CountInv(r)'
  BY FS_EmptySet DEF RunInv, CountInv
<1>5. AcceptedInv(r)'
  BY <1>1 DEF RunInv, AcceptedInv
<1>6. QED
  BY <1>3, <1>4, <1>5 DEF RunInv

\* A deletion in flight, while closed firings stay closed and get no new rows.
LEMMA SameSession ==
  ASSUME TypeOK, NEW s \in Session, SessionInv(s), session'[s] = session[s],
         \A r \in Run : run[r].pc = "done" =>
                          run'[r].pc = "done" /\ RowsOf({r})' \subseteq RowsOf({r})
  PROVE  SessionInv(s)'
<1>1. session[s].results \subseteq Run
  BY DEF TypeOK, SessionState
<1>2. CASE session[s].op \in {"limit", "days"}
  <2>1. session[s].tasks = {} /\ KeysHold(s)
        /\ \A r \in session[s].results : run[r].pc = "done"
    BY <1>2 DEF SessionInv
  <2>2. RowsOf(session[s].results)' \subseteq session[s].rows
    BY <1>1, <2>1 DEF RowsOf, KeysHold
  <2>3. KeysHold(s)'
    BY <2>1, <2>2 DEF KeysHold
  <2>4. QED
    BY <1>1, <2>1, <2>3 DEF SessionInv
<1>3. CASE session[s].op \notin {"limit", "days"}
  BY <1>3 DEF SessionInv
<1>4. QED
  BY <1>2, <1>3

\* A step of one firing that is not closed.
LEMMA OneRun ==
  ASSUME TypeOK, Inductive, NEW r \in Run, run[r].pc # "done",
         UNCHANGED <<task, session>>,
         \A q \in Run \ {r} : run'[q] = run[q] /\ SameTables(q),
         RunInv(r)'
  PROVE  Inductive'
<1>1. ASSUME NEW q \in Run PROVE RunInv(q)'
  <2>1. CASE q = r
    BY <2>1
  <2>2. CASE q # r
    BY <2>2, SameRun DEF Inductive, RunInv
  <2>3. QED
    BY <2>1, <2>2
<1>2. ASSUME NEW s \in Session PROVE SessionInv(s)'
  BY SameSession DEF Inductive, SameTables
<1>3. QED
  BY <1>1, <1>2 DEF Inductive, RunInv

\* A step that leaves every firing, its tables and the deletions alone.
LEMMA NoRun ==
  ASSUME TypeOK, Inductive, UNCHANGED <<run, tableVars, accepted, session>>,
         \A t \in Task : task[t] = "live" => task'[t] = "live"
  PROVE  Inductive'
<1>1. ASSUME NEW r \in Run PROVE RunInv(r)'
  <2>1. RunInv(r) /\ SameTables(r)
    BY DEF Inductive, RunInv, SameTables, RowsOf
  <2>2. r \in result => task'[run[r].task] = task[run[r].task]
    <3>1. SUFFICES ASSUME r \in result PROVE task'[run[r].task] = task[run[r].task]
      OBVIOUS
    <3>2. task[run[r].task] = "live" /\ run[r].pc # "idle"
      BY <2>1, <3>1 DEF RunInv, TableInv, Working
    <3>3. run[r].task \in Task
      BY <3>2 DEF TypeOK, RunState
    <3>4. QED
      BY <3>2, <3>3
  <2>3. QED
    BY <2>1, <2>2, SameRun
<1>2. ASSUME NEW s \in Session PROVE SessionInv(s)'
  BY SameSession DEF Inductive, RowsOf
<1>3. QED
  BY <1>1, <1>2 DEF Inductive, RunInv

-----------------------------------------------------------------------------
(* The initial states, the handlers, the scheduler and the environment.    *)

LEMMA InitInductive == Init => Inductive
<1> SUFFICES ASSUME Init PROVE Inductive
  OBVIOUS
<1>1. ASSUME NEW r \in Run PROVE RunInv(r)
  <2>1. run[r].pc = "idle" /\ ~Working(r)
    BY DEF Init, FreshRun, Working
  <2>2. r \notin result /\ RowsOf({r}) = {} /\ Stored(r) = {}
    BY DEF Init, RowsOf, Stored
  <2>3. ExecutorInv(r) /\ TableInv(r)
    BY <2>1, <2>2 DEF ExecutorInv, TableInv
  <2>4. CountInv(r)
    BY <2>1, <2>2, FS_EmptySet DEF CountInv, Init
  <2>5. AcceptedInv(r)
    BY <2>1 DEF AcceptedInv, Init
  <2>6. QED
    BY <2>3, <2>4, <2>5 DEF RunInv
<1>2. ASSUME NEW s \in Session PROVE SessionInv(s)
  BY DEF Init, FreeSession, SessionInv
<1>3. QED
  BY <1>1, <1>2 DEF Inductive, RunInv

LEMMA HandlerInductive == TypeOK /\ Inductive /\ Handler => Inductive'
<1> SUFFICES ASSUME TypeOK, Inductive, Handler PROVE Inductive'
  OBVIOUS
<1>1. UNCHANGED <<run, tableVars, accepted, session>>
  BY DEF Handler, InsertTask, StageUpdate, AddJob, ReplaceJob, RollbackUpdate,
     CommitUpdate, PauseJob, ResumeJob, RemoveJob, SetJob, ToggleScheduler
<1>2. \A t \in Task : task[t] = "live" => task'[t] = "live"
  <2>1. CASE \E t \in Task, S \in Selections : InsertTask(t, S)
    BY <2>1 DEF InsertTask, TypeOK
  <2>2. CASE UNCHANGED task
    BY <2>2
  <2>3. QED
    BY <2>1, <2>2 DEF Handler, StageUpdate, AddJob, ReplaceJob, RollbackUpdate,
       CommitUpdate, PauseJob, ResumeJob, RemoveJob, SetJob, ToggleScheduler
<1>3. QED
  BY <1>1, <1>2, NoRun

LEMMA SchedulerInductive ==
  ASSUME NEW t \in Task, TypeOK, Inductive, Scheduler(t) PROVE Inductive'
<1>1. ASSUME NEW r \in Run, Fire(t, r) PROVE Inductive'
  <2>1. /\ Early(r) /\ Early(r)' /\ run[r].pc # "done"
        /\ \A q \in Run \ {r} : run'[q] = run[q]
    BY <1>1 DEF Fire, SlotFor, Early, TypeOK
  <2>2. \A q \in Run : SameTables(q)
    BY <1>1 DEF Fire, SameTables, RowsOf
  <2>3. ExecutorInv(r)'
    <3>1. run'[r] = [FreshRun EXCEPT !.pc = "read", !.task = t]
      BY <1>1 DEF Fire, TypeOK
    <3>2. QED
      BY <2>1, <3>1 DEF ExecutorInv, FreshRun, Early, Working
  <2>4. RunInv(r)'
    BY <2>1, <2>2, <2>3, EarlyRun DEF Inductive, RunInv
  <2>5. QED
    BY <1>1, <2>1, <2>2, <2>4, OneRun DEF Fire
<1>2. CASE SkipLastFiring(t)
  BY <1>2, NoRun DEF SkipLastFiring
<1>3. QED
  BY <1>1, <1>2 DEF Scheduler

LEMMA EnvironmentInductive == TypeOK /\ Inductive /\ Environment => Inductive'
<1> SUFFICES ASSUME TypeOK, Inductive, Environment PROVE Inductive'
  OBVIOUS
<1>1. ASSUME NEW n \in ServerCounts, EditServers(n) PROVE Inductive'
  BY <1>1, NoRun DEF EditServers
<1>2. CASE Restart
  BY <1>2, NoRun DEF Restart
<1>3. CASE Crash
  <2>1. \A q \in Run : SameTables(q)
    BY <1>3 DEF Crash, SameTables, RowsOf
  <2>2. ASSUME NEW r \in Run PROVE RunInv(r)'
    <3>1. run[r] \in RunState /\ RunInv(r)
      BY DEF TypeOK, Inductive, RunInv
    <3>2. CASE run[r].pc \in {"read", "orphan", "create"}
      <4>1. Early(r) /\ Early(r)' /\ ExecutorInv(r)'
        BY <1>3, <3>2 DEF Crash, Early, FreshRun, ExecutorInv, Working
      <4>2. QED
        BY <2>1, <3>1, <4>1, EarlyRun
    <3>3. CASE Working(r)
      <4>1. run'[r] = [run[r] EXCEPT !.pc = "lost"]
        BY <1>3, <3>3 DEF Crash, Working
      <4>2. run'[r].pc = "lost" /\ run'[r].sel = run[r].sel
            /\ run'[r].task = run[r].task
        BY <3>1, <4>1 DEF RunState
      <4>3. ~Working(r)' /\ Stored(r)' = Stored(r)
        BY <2>1, <4>2 DEF Working, Stored, SameTables
      <4>4. ExecutorInv(r)'
        BY <4>2, <4>3 DEF ExecutorInv
      <4>5. TableInv(r)'
        BY <1>3, <2>1, <3>1, <4>2, <4>3 DEF RunInv, TableInv, SameTables, Crash
      <4>6. CountInv(r)'
        BY <2>1, <3>1, <3>3, <4>2, <4>3 DEF RunInv, CountInv, SameTables, Working
      <4>7. AcceptedInv(r)'
        BY <4>2, <4>3 DEF AcceptedInv
      <4>8. QED
        BY <4>4, <4>5, <4>6, <4>7 DEF RunInv
    <3>4. CASE ~Working(r) /\ run[r].pc \notin {"read", "orphan", "create"}
      <4>1. run'[r] = run[r] /\ task' = task
        BY <1>3, <3>4 DEF Crash, Working
      <4>2. QED
        BY <2>1, <3>1, <4>1, SameRun
    <3>5. QED
      BY <3>2, <3>3, <3>4
  <2>3. ASSUME NEW s \in Session PROVE SessionInv(s)'
    BY <1>3 DEF Crash, SessionInv, FreeSession
  <2>4. QED
    BY <2>2, <2>3 DEF Inductive, RunInv
<1>4. QED
  BY <1>1, <1>2, <1>3 DEF Environment

-----------------------------------------------------------------------------
(* Deletions.                                                              *)

\* Loading what is to be deleted changes the session alone.
LEMMA LoadStep ==
  ASSUME TypeOK, Inductive, NEW s \in Session, SessionInv(s)',
         UNCHANGED <<run, task, tableVars, accepted>>,
         \A q \in Session \ {s} : session'[q] = session[q]
  PROVE  Inductive'
<1>1. ASSUME NEW r \in Run PROVE RunInv(r)'
  BY SameRun DEF Inductive, RunInv, SameTables, RowsOf
<1>2. ASSUME NEW q \in Session PROVE SessionInv(q)'
  <2>1. CASE q = s
    BY <2>1
  <2>2. CASE q # s
    BY <2>2, SameSession DEF Inductive, RowsOf
  <2>3. QED
    BY <2>1, <2>2
<1>3. QED
  BY <1>1, <1>2 DEF Inductive, RunInv

\* A session that holds nothing satisfies its part.
LEMMA FreeSessionInv ==
  ASSUME NEW s \in Session, session'[s].rows = {}, session'[s].op \notin {"limit", "days"}
  PROVE  SessionInv(s)'
  BY DEF SessionInv

\* A result with counts is closed, so the cleanup's choices hold closed results.
LEMMA CountedIsClosed ==
  ASSUME TypeOK, Inductive, NEW r \in Run, Counted(r)
  PROVE  run[r].pc = "done"
<1>1. run[r].pc # "done" => count[r] = NoCount
  BY DEF Inductive, CountInv
<1>2. QED
  BY <1>1 DEF Counted, NoCount

LEMMA CleanupLoads ==
  ASSUME TypeOK, Inductive, NEW s \in Session, NEW R \in SUBSET Run,
         \A r \in R : Counted(r), UNCHANGED <<run, tableVars>>,
         session'[s].tasks = {}, session'[s].results = R, session'[s].rows = RowsOf(R)
  PROVE  SessionInv(s)'
<1>1. \A r \in R : run'[r].pc = "done"
  BY CountedIsClosed
<1>2. RowsOf(R)' = RowsOf(R)
  BY DEF RowsOf
<1>3. KeysHold(s)'
  BY <1>2 DEF KeysHold
<1>4. \A x \in session'[s].rows : x.run \in session'[s].results
  BY DEF RowsOf
<1>5. QED
  BY <1>1, <1>3, <1>4 DEF SessionInv

LEMMA LoadInductive ==
  ASSUME TypeOK, Inductive, NEW s \in Session,
         \/ \E t \in Task : BeginDeleteTask(s, t)
         \/ LoadTask(s)
         \/ \E r \in Run : LoadResult(s, r)
         \/ LoadBeyondLimit(s)
         \/ \E cutoff \in 0..Cardinality(Run) : LoadTooOld(s, cutoff)
  PROVE  Inductive'
<1>1. /\ UNCHANGED <<run, task, tableVars, accepted>>
      /\ \A q \in Session \ {s} : session'[q] = session[q]
  BY DEF BeginDeleteTask, LoadTask, LoadResult, LoadBeyondLimit, LoadTooOld, TypeOK
<1>2. SessionInv(s)'
  <2>1. ASSUME NEW t \in Task, BeginDeleteTask(s, t) PROVE SessionInv(s)'
    <3>1. session'[s] = [FreeSession EXCEPT !.op = "task", !.tasks = {t}]
      BY <2>1 DEF BeginDeleteTask, TypeOK
    <3>2. QED
      BY <3>1, FreeSessionInv DEF FreeSession
  <2>2. CASE LoadTask(s)
    <3>1. PICK t \in session[s].tasks :
            \/ session'[s] = [op |-> "commit", tasks |-> {t}, results |-> ResultsOf(t),
                              rows |-> RowsOf(ResultsOf(t))]
            \/ session'[s] = FreeSession
      BY <2>2 DEF LoadTask, TypeOK
    <3>2. CASE session'[s] = FreeSession
      BY <3>2, FreeSessionInv DEF FreeSession
    <3>3. CASE session'[s] = [op |-> "commit", tasks |-> {t}, results |-> ResultsOf(t),
                              rows |-> RowsOf(ResultsOf(t))]
      BY <3>3 DEF SessionInv, RowsOf
    <3>4. QED
      BY <3>1, <3>2, <3>3
  <2>3. ASSUME NEW r \in Run, LoadResult(s, r) PROVE SessionInv(s)'
    <3>1. session'[s] = [op |-> "commit", tasks |-> {}, results |-> {r},
                         rows |-> RowsOf({r})]
      BY <2>3 DEF LoadResult, TypeOK
    <3>2. QED
      BY <3>1 DEF SessionInv, RowsOf
  <2>4. CASE LoadBeyondLimit(s)
    <3>1. CASE session'[s] = [FreeSession EXCEPT !.op = "age"]
      BY <3>1, FreeSessionInv DEF FreeSession
    <3>2. CASE session'[s] = [op |-> "limit", tasks |-> {}, results |-> BeyondLimit,
                              rows |-> RowsOf(BeyondLimit)]
      <4>1. BeyondLimit \in SUBSET Run /\ \A r \in BeyondLimit : Counted(r)
        BY DEF BeyondLimit, TypeOK
      <4>2. QED
        BY <1>1, <3>2, <4>1, CleanupLoads
    <3>3. QED
      BY <2>4, <3>1, <3>2 DEF LoadBeyondLimit, TypeOK
  <2>5. ASSUME NEW cutoff \in 0..Cardinality(Run), LoadTooOld(s, cutoff)
        PROVE  SessionInv(s)'
    <3>1. session'[s] = [op |-> "days", tasks |-> {}, results |-> TooOld(cutoff),
                         rows |-> RowsOf(TooOld(cutoff))]
      BY <2>5 DEF LoadTooOld, TypeOK
    <3>2. TooOld(cutoff) \in SUBSET Run /\ \A r \in TooOld(cutoff) : Counted(r)
      BY DEF TooOld, TypeOK
    <3>3. QED
      BY <1>1, <3>1, <3>2, CleanupLoads
  <2>6. QED
    BY <2>1, <2>2, <2>3, <2>4, <2>5
<1>3. QED
  BY <1>1, <1>2, LoadStep

LEMMA CommitInductive ==
  ASSUME TypeOK, Inductive, NEW s \in Session, CommitDelete(s)
  PROVE  Inductive'
<1>1. SessionInv(s)' /\ \A q \in Session \ {s} : session'[q] = session[q]
  <2>1. \/ session'[s] = FreeSession
        \/ session'[s] = [FreeSession EXCEPT !.op = "age"]
    BY DEF CommitDelete, TypeOK
  <2>2. \A q \in Session \ {s} : session'[q] = session[q]
    BY DEF CommitDelete, TypeOK
  <2>3. QED
    BY <2>1, <2>2, FreeSessionInv DEF FreeSession
<1>2. CASE ~KeysHold(s)
  BY <1>1, <1>2, LoadStep DEF CommitDelete
<1>3. CASE KeysHold(s)
  <2>1. /\ task' = [t \in Task |-> IF t \in session[s].tasks THEN "deleted"
                                   ELSE task[t]]
        /\ result' = result \ session[s].results
        /\ rows' = rows \ session[s].rows
        /\ UNCHANGED <<run, count, accepted>>
    BY <1>3 DEF CommitDelete
  <2>2. \A x \in session[s].rows : x.run \in session[s].results
    BY DEF Inductive, SessionInv
  <2>3. \A r \in Run : RowsOf({r})' \subseteq RowsOf({r})
    BY <2>1 DEF RowsOf
  <2>4. ASSUME NEW r \in Run PROVE RunInv(r)'
    <3>1. RunInv(r)
      BY DEF Inductive, RunInv
    <3>2. CASE r \in session[s].results
      <4>1. RowsOf({r})' = {}
        BY <1>3, <2>1, <3>2 DEF RowsOf, KeysHold
      <4>2. QED
        BY <2>1, <3>1, <3>2, <4>1, DroppedRun
    <3>3. CASE r \notin session[s].results
      <4>1. SameTables(r)
        BY <2>1, <2>2, <3>3 DEF SameTables, RowsOf
      <4>2. r \in result => run[r].task \notin session[s].tasks
        BY <1>3, <3>3 DEF KeysHold, ResultsOf
      <4>3. r \in result => run[r].task \in Task
        <5>1. r \in result => run[r].pc # "idle"
          BY <3>1 DEF RunInv, TableInv, Working
        <5>2. QED
          BY <5>1 DEF TypeOK, RunState
      <4>4. QED
        BY <2>1, <3>1, <4>1, <4>2, <4>3, SameRun
    <3>4. QED
      BY <3>2, <3>3
  <2>5. ASSUME NEW q \in Session PROVE SessionInv(q)'
    <3>1. CASE q = s
      BY <1>1, <3>1
    <3>2. CASE q # s
      BY <1>1, <2>1, <2>3, <3>2, SameSession DEF Inductive
    <3>3. QED
      BY <3>1, <3>2
  <2>6. QED
    BY <2>4, <2>5 DEF Inductive, RunInv
<1>4. QED
  BY <1>2, <1>3

LEMMA DeletionInductive ==
  ASSUME NEW s \in Session, TypeOK, Inductive, Deletion(s) PROVE Inductive'
  BY LoadInductive, CommitInductive DEF Deletion

-----------------------------------------------------------------------------
(* The executor.                                                           *)

\* The record of firing r afterwards, when only its nodes and counters change.
Keeps(r) ==
    /\ run'[r].task = run[r].task /\ run'[r].sel = run[r].sel
    /\ \A q \in Run \ {r} : run'[q] = run[q]

LEMMA SettleFields ==
  ASSUME TypeOK, NEW r \in Run, NEW n \in Node, NEW isOk \in BOOLEAN, Settle(r, n, isOk)
  PROVE  /\ Keeps(r)
         /\ run'[r].pc = "check" /\ run'[r].node = n /\ run'[r].ok = isOk
         /\ run'[r].todo = run[r].todo \ {n} /\ run'[r].retry = run[r].retry
         /\ run'[r].round = run[r].round
         /\ run'[r].pass = run[r].pass + (IF isOk THEN 1 ELSE 0)
         /\ run'[r].fail = run[r].fail + (IF isOk THEN 0 ELSE 1)
<1>1. run[r] \in RunState
  BY DEF TypeOK
<1>2. CASE isOk
  BY <1>1, <1>2 DEF Settle, TypeOK, RunState, Keeps
<1>3. CASE ~isOk
  BY <1>1, <1>3 DEF Settle, TypeOK, RunState, Keeps
<1>4. QED
  BY <1>2, <1>3

LEMMA DeferFields ==
  ASSUME TypeOK, NEW r \in Run, NEW n \in Node, Defer(r, n)
  PROVE  /\ Keeps(r)
         /\ run'[r].pc = run[r].pc /\ run'[r].node = run[r].node
         /\ run'[r].ok = run[r].ok /\ run'[r].round = run[r].round
         /\ run'[r].todo = run[r].todo \ {n} /\ run'[r].retry = run[r].retry \cup {n}
         /\ run'[r].pass = run[r].pass /\ run'[r].fail = run[r].fail
<1>1. run[r] \in RunState
  BY DEF TypeOK
<1>2. QED
  BY <1>1 DEF Defer, TypeOK, RunState, Keeps

\* A step that changes only the program counter of r.
LEMMA MoveFields ==
  ASSUME TypeOK, NEW r \in Run,
         NEW c \in {"node", "check", "insert", "done", "lost"}, run' = [run EXCEPT ![r].pc = c]
  PROVE  /\ Keeps(r)
         /\ run'[r].pc = c /\ run'[r].node = run[r].node
         /\ run'[r].ok = run[r].ok /\ run'[r].round = run[r].round
         /\ run'[r].todo = run[r].todo /\ run'[r].retry = run[r].retry
         /\ run'[r].pass = run[r].pass /\ run'[r].fail = run[r].fail
<1>1. run[r] \in RunState
  BY DEF TypeOK
<1>2. QED
  BY <1>1 DEF TypeOK, RunState, Keeps

\* Counting a node moves it from the round to the executor's hand.
LEMMA SettleInductive ==
  ASSUME TypeOK, Inductive, NEW r \in Run, NEW n \in Node, NEW isOk \in BOOLEAN,
         NextNode(r, n), Settle(r, n, isOk), UNCHANGED <<task, tableVars, session>>,
         \A q \in Run \ {r} : accepted'[q] = accepted[q],
         \A m \in Node \ {n} : accepted'[r][m] = accepted[r][m]
  PROVE  Inductive'
<1>1. /\ Keeps(r)
      /\ run'[r].pc = "check" /\ run'[r].node = n /\ run'[r].ok = isOk
      /\ run'[r].todo = run[r].todo \ {n} /\ run'[r].retry = run[r].retry
      /\ run'[r].round = run[r].round
      /\ run'[r].pass = run[r].pass + (IF isOk THEN 1 ELSE 0)
      /\ run'[r].fail = run[r].fail + (IF isOk THEN 0 ELSE 1)
  BY SettleFields
<1>2. run[r].pc = "node" /\ n \in run[r].todo /\ RunInv(r)
  BY DEF NextNode, Inductive, RunInv
<1>3. /\ Working(r) /\ Working(r)' /\ ~Holding(r) /\ Holding(r)'
      /\ Deferred(r)' = Deferred(r)
  BY <1>1, <1>2 DEF Working, Holding, Deferred
<1>4. n \notin Deferred(r) /\ Pending(r)' = Pending(r)
  BY <1>1, <1>2, <1>3 DEF RunInv, ExecutorInv, Pending
<1>5. RowsOf({r})' = RowsOf({r}) /\ Stored(r)' = Stored(r)
      /\ PassRows(r)' = PassRows(r) /\ FailRows(r)' = FailRows(r)
  BY DEF RowsOf, Stored, PassRows, FailRows
<1>6. ExecutorInv(r)'
  BY <1>1, <1>2, <1>3, <1>4 DEF RunInv, ExecutorInv, Keeps
<1>7. TableInv(r)'
  <2>1. TableInv(r)
    BY <1>2 DEF RunInv
  <2>2. run'[r].sel = run[r].sel /\ run'[r].task = run[r].task
        /\ result' = result /\ task' = task
    BY <1>1 DEF Keeps
  <2>3. /\ Stored(r)' \subseteq run'[r].sel
        /\ \A x, y \in RowsOf({r})' : x.node = y.node => x = y
        /\ r \notin result' => RowsOf({r})' = {}
    BY <1>5, <2>1, <2>2 DEF TableInv
  <2>4. r \in result' =>
          /\ task'[run'[r].task] = "live"
          /\ Stored(r)' = run'[r].sel \ Pending(r)'
    BY <1>3, <1>4, <1>5, <2>1, <2>2 DEF TableInv
  <2>5. QED
    BY <1>1, <1>3, <2>3, <2>4 DEF TableInv
<1>8. CountInv(r)'
  <2>1. run[r].pass \in Nat /\ run[r].fail \in Nat
    BY DEF TypeOK, RunState
  <2>2. /\ HeldPass(r) = 0 /\ HeldFail(r) = 0
        /\ HeldPass(r)' = (IF isOk THEN 1 ELSE 0)
        /\ HeldFail(r)' = (IF isOk THEN 0 ELSE 1)
    BY <1>1, <1>3 DEF HeldPass, HeldFail
  <2>3. r \in result' => /\ run[r].pass = Cardinality(PassRows(r)) + 0
                         /\ run[r].fail = Cardinality(FailRows(r)) + 0
    BY <1>2, <1>3, <2>2 DEF RunInv, CountInv
  <2>4. IsFiniteSet(RowsOf({r}))
    BY <1>2 DEF RunInv, CountInv
  <2>5. IsFiniteSet(PassRows(r)) /\ IsFiniteSet(FailRows(r))
    BY <2>4, FS_Subset DEF PassRows, FailRows, RowsOf
  <2>6. Cardinality(PassRows(r)) \in Nat /\ Cardinality(FailRows(r)) \in Nat
    BY <2>5, FS_CardinalityType
  <2>7. r \in result' =>
           /\ run'[r].pass = Cardinality(PassRows(r)) + (IF isOk THEN 1 ELSE 0)
           /\ run'[r].fail = Cardinality(FailRows(r)) + (IF isOk THEN 0 ELSE 1)
    BY <1>1, <2>3, <2>6
  <2>8. count'[r] = NoCount
    BY <1>2 DEF RunInv, CountInv
  <2>9. QED
    BY <1>1, <1>5, <2>2, <2>4, <2>7, <2>8 DEF CountInv
<1>9. AcceptedInv(r)'
  BY <1>1, <1>2, <1>3, <1>4 DEF RunInv, AcceptedInv
<1>10. \A q \in Run \ {r} : run'[q] = run[q] /\ SameTables(q)
  BY <1>1 DEF Keeps, SameTables, RowsOf
<1>11. QED
  BY <1>2, <1>6, <1>7, <1>8, <1>9, <1>10, OneRun DEF RunInv

\* A working firing that stays one, with nothing stored and nothing counted.
LEMMA WorkingRun ==
  ASSUME TypeOK, Inductive, NEW r \in Run, Working(r), Working(r)', Keeps(r),
         UNCHANGED <<task, tableVars, session>>,
         run'[r].pass = run[r].pass, run'[r].fail = run[r].fail,
         r \in result => /\ Pending(r)' = Pending(r)
                        /\ HeldPass(r)' = HeldPass(r)
                        /\ HeldFail(r)' = HeldFail(r),
         ExecutorInv(r)', AcceptedInv(r)',
         \A q \in Run \ {r} : accepted'[q] = accepted[q]
  PROVE  Inductive'
<1>1. RowsOf({r})' = RowsOf({r}) /\ Stored(r)' = Stored(r)
      /\ PassRows(r)' = PassRows(r) /\ FailRows(r)' = FailRows(r)
  BY DEF RowsOf, Stored, PassRows, FailRows
<1>2. TableInv(r) /\ CountInv(r)
  BY DEF Inductive
<1>3. /\ run'[r].sel = run[r].sel /\ run'[r].task = run[r].task
      /\ result' = result /\ task' = task /\ count' = count
      /\ run[r].pc # "done" /\ run'[r].pc # "done"
  BY DEF Keeps, Working
<1>4. TableInv(r)'
  <2>1. /\ Stored(r)' \subseteq run'[r].sel
        /\ \A x, y \in RowsOf({r})' : x.node = y.node => x = y
        /\ r \notin result' => RowsOf({r})' = {}
    BY <1>1, <1>2, <1>3 DEF TableInv
  <2>2. r \in result' =>
          /\ task'[run'[r].task] = "live"
          /\ Stored(r)' = run'[r].sel \ Pending(r)'
    BY <1>1, <1>2, <1>3 DEF TableInv
  <2>3. QED
    BY <1>3, <2>1, <2>2 DEF TableInv
<1>5. CountInv(r)'
  BY <1>1, <1>2, <1>3 DEF CountInv
<1>6. \A q \in Run \ {r} : run'[q] = run[q] /\ SameTables(q)
  BY DEF Keeps, SameTables, RowsOf
<1>7. QED
  BY <1>3, <1>4, <1>5, <1>6, OneRun DEF RunInv

\* Deferring a node happens in the first round only, and once.
LEMMA DeferInductive ==
  ASSUME TypeOK, Inductive, NEW r \in Run, NEW n \in Node,
         NextNode(r, n), n \notin run[r].retry, Defer(r, n),
         UNCHANGED <<task, tableVars, session>>,
         \/ UNCHANGED accepted
         \/ accepted' = [accepted EXCEPT ![r][n] = @ + 1]
  PROVE  Inductive'
<1>1. /\ Keeps(r)
      /\ run'[r].pc = run[r].pc /\ run'[r].node = run[r].node
      /\ run'[r].ok = run[r].ok /\ run'[r].round = run[r].round
      /\ run'[r].todo = run[r].todo \ {n} /\ run'[r].retry = run[r].retry \cup {n}
      /\ run'[r].pass = run[r].pass /\ run'[r].fail = run[r].fail
  BY DeferFields
<1>2. run[r].pc = "node" /\ n \in run[r].todo /\ ExecutorInv(r) /\ AcceptedInv(r)
  BY DEF NextNode, Inductive
<1>3. run[r].round = 1
  <2>1. run[r].round \in {1, 2}
    BY DEF TypeOK, RunState
  <2>2. QED
    BY <1>2, <2>1 DEF ExecutorInv, Working
<1>4. /\ Working(r) /\ Working(r)' /\ ~Holding(r) /\ ~Holding(r)'
      /\ Deferred(r) = run[r].retry /\ Deferred(r)' = run[r].retry \cup {n}
  BY <1>1, <1>2, <1>3 DEF Working, Holding, Deferred
<1>5. Pending(r)' = Pending(r)
  BY <1>1, <1>2, <1>4 DEF Pending
<1>6. HeldPass(r)' = HeldPass(r) /\ HeldFail(r)' = HeldFail(r)
  BY <1>4 DEF HeldPass, HeldFail
<1>7. ExecutorInv(r)'
  BY <1>1, <1>2, <1>3, <1>4, <1>5 DEF ExecutorInv, Keeps
<1>8. accepted[r] \in [Node -> Nat] /\ accepted \in [Run -> [Node -> Nat]]
  BY DEF TypeOK
<1>9. /\ \A q \in Run \ {r} : accepted'[q] = accepted[q]
      /\ \A m \in Node \ {n} : accepted'[r][m] = accepted[r][m]
      /\ accepted'[r][n] < 2
  <2>1. accepted[r][n] = 0
    BY <1>2, <1>3, <1>4 DEF AcceptedInv
  <2>2. QED
    BY <1>8, <2>1
<1>10. AcceptedInv(r)'
  <2>1. \A m \in run'[r].todo : m # n /\ m \in run[r].todo
    BY <1>1
  <2>2. \A m \in run'[r].todo \cup Deferred(r)' :
          m = n \/ m \in run[r].todo \cup Deferred(r)
    BY <1>1, <1>4
  <2>3. run'[r].pc = "node"
    BY <1>1, <1>2
  <2>4. \A m \in Node : /\ m \in run'[r].todo => accepted'[r][m] = 0
                        /\ m \in run'[r].todo \cup Deferred(r)' => accepted'[r][m] < 2
    BY <1>2, <1>3, <1>4, <1>9, <2>1, <2>2 DEF AcceptedInv
  <2>5. QED
    BY <2>3, <2>4 DEF AcceptedInv
<1>11. QED
  BY <1>1, <1>4, <1>5, <1>6, <1>7, <1>9, <1>10, WorkingRun

LEMMA ScheduleInductive ==
  ASSUME TypeOK, Inductive, NEW r \in Run, NEW n \in Node,
         ScheduleOk(r, n) \/ ScheduleFailed(r, n)
  PROVE  Inductive'
<1>1. accepted \in [Run -> [Node -> Nat]]
  BY DEF TypeOK
<1>2. UNCHANGED accepted \/ accepted' = [accepted EXCEPT ![r][n] = @ + 1]
  BY DEF ScheduleOk, ScheduleFailed
<1>3. /\ \A q \in Run \ {r} : accepted'[q] = accepted[q]
      /\ \A m \in Node \ {n} : accepted'[r][m] = accepted[r][m]
  BY <1>1, <1>2
<1>4. NextNode(r, n) /\ UNCHANGED <<task, tableVars, session>>
  BY DEF ScheduleOk, ScheduleFailed
<1>5. CASE ScheduleOk(r, n)
  BY <1>3, <1>4, <1>5, SettleInductive DEF ScheduleOk
<1>6. CASE ScheduleFailed(r, n) /\ n \in run[r].retry
  BY <1>3, <1>4, <1>6, SettleInductive DEF ScheduleFailed
<1>7. CASE ScheduleFailed(r, n) /\ n \notin run[r].retry
  BY <1>2, <1>4, <1>7, DeferInductive DEF ScheduleFailed
<1>8. QED
  BY <1>5, <1>6, <1>7

LEMMA CheckInductive ==
  ASSUME TypeOK, Inductive, NEW r \in Run, CheckResult(r)
  PROVE  Inductive'
<1> DEFINE c == IF r \in result THEN "insert" ELSE "node"
<1>0. c \in {"node", "check", "insert", "done"}
  OBVIOUS
<1>1. run' = [run EXCEPT ![r].pc = c] /\ run[r].pc = "check"
      /\ UNCHANGED <<task, tableVars, accepted, session>>
  BY DEF CheckResult
<1>2. /\ Keeps(r)
      /\ run'[r].pc = c /\ run'[r].node = run[r].node
      /\ run'[r].ok = run[r].ok /\ run'[r].round = run[r].round
      /\ run'[r].todo = run[r].todo /\ run'[r].retry = run[r].retry
      /\ run'[r].pass = run[r].pass /\ run'[r].fail = run[r].fail
  <2> HIDE DEF c
  <2>1. QED
    BY <1>0, <1>1, MoveFields
<1>3. /\ Working(r) /\ Working(r)' /\ Holding(r)
      /\ Holding(r)' = (r \in result) /\ Deferred(r)' = Deferred(r)
  BY <1>1, <1>2 DEF Working, Holding, Deferred
<1>4. r \in result => Pending(r)' = Pending(r)
  BY <1>2, <1>3 DEF Pending
<1>5. r \in result => /\ HeldPass(r)' = HeldPass(r)
                     /\ HeldFail(r)' = HeldFail(r)
  BY <1>2, <1>3 DEF HeldPass, HeldFail
<1>6. ExecutorInv(r) /\ AcceptedInv(r)
  BY DEF Inductive
<1>7. Pending(r)' \subseteq Pending(r)
  BY <1>2, <1>3 DEF Pending
<1>8. ExecutorInv(r)'
  BY <1>2, <1>3, <1>6, <1>7 DEF ExecutorInv, Keeps
<1>9. AcceptedInv(r)'
  BY <1>1, <1>2, <1>3, <1>6 DEF AcceptedInv, Working
<1>10. QED
  BY <1>1, <1>2, <1>3, <1>4, <1>5, <1>8, <1>9, WorkingRun

LEMMA RetryInductive ==
  ASSUME TypeOK, Inductive, NEW r \in Run, StartRetry(r)
  PROVE  Inductive'
<1>1. run[r] \in RunState
  BY DEF TypeOK
<1>2. run[r].pc = "node" /\ run[r].todo = {} /\ run[r].round = 1
      /\ UNCHANGED <<task, tableVars, accepted, session>>
  BY DEF StartRetry, RetryDue
<1>3. /\ Keeps(r)
      /\ run'[r].pc = "node" /\ run'[r].node = run[r].node
      /\ run'[r].ok = run[r].ok /\ run'[r].round = 2
      /\ run'[r].todo = run[r].retry /\ run'[r].retry = run[r].retry
      /\ run'[r].pass = run[r].pass /\ run'[r].fail = run[r].fail
  BY <1>1, <1>2 DEF StartRetry, RetryNodes, TypeOK, RunState, Keeps
<1>4. /\ Working(r) /\ Working(r)' /\ ~Holding(r) /\ ~Holding(r)'
      /\ Deferred(r) = run[r].retry /\ Deferred(r)' = {}
  BY <1>2, <1>3 DEF Working, Holding, Deferred
<1>5. Pending(r) = run[r].retry /\ Pending(r)' = run[r].retry
  BY <1>2, <1>3, <1>4 DEF Pending
<1>6. HeldPass(r)' = HeldPass(r) /\ HeldFail(r)' = HeldFail(r)
  BY <1>4 DEF HeldPass, HeldFail
<1>7. ExecutorInv(r) /\ AcceptedInv(r)
  BY DEF Inductive
<1>8. ExecutorInv(r)'
  BY <1>3, <1>4, <1>5, <1>7 DEF ExecutorInv, Keeps
<1>9. AcceptedInv(r)'
  BY <1>2, <1>3, <1>4, <1>7 DEF AcceptedInv
<1>10. QED
  BY <1>2, <1>3, <1>4, <1>5, <1>6, <1>8, <1>9, WorkingRun

\* A new result has no rows and owes every selected node.
LEMMA CreateInductive ==
  ASSUME TypeOK, Inductive, NEW r \in Run, CreateResult(r)
  PROVE  Inductive'
<1>1. run[r] \in RunState /\ RunInv(r) /\ run[r].pc = "create"
      /\ UNCHANGED <<task, count, rows, accepted, session>>
  BY DEF TypeOK, Inductive, RunInv, CreateResult
<1>2. r \notin result /\ ~Working(r) /\ RowsOf({r}) = {} /\ count[r] = NoCount
  BY <1>1 DEF RunInv, TableInv, CountInv, Working
<1>3. \A q \in Run \ {r} : run'[q] = run[q] /\ SameTables(q)
  BY <1>1 DEF CreateResult, SameTables, RowsOf, TypeOK
<1>4. CASE run' = [run EXCEPT ![r] = FreshRun] /\ UNCHANGED result
  <2>1. Early(r) /\ Early(r)' /\ SameTables(r) /\ ExecutorInv(r)'
    BY <1>1, <1>4 DEF Early, FreshRun, TypeOK, SameTables, RowsOf, ExecutorInv, Working
  <2>2. QED
    BY <1>1, <1>3, <2>1, EarlyRun, OneRun
<1>5. CASE /\ run' = [run EXCEPT ![r].pc = "node", ![r].todo = run[r].sel]
           /\ task[run[r].task] = "live"
  <2>1. run'[r] = [run[r] EXCEPT !.pc = "node", !.todo = run[r].sel]
    BY <1>1, <1>5 DEF TypeOK
  <2>2. CASE run[r].round = 1 /\ run[r].retry = {} /\ run[r].pass = 0 /\ run[r].fail = 0
    <3>1. /\ run'[r].pc = "node" /\ run'[r].todo = run[r].sel /\ run'[r].sel = run[r].sel
          /\ run'[r].round = 1 /\ run'[r].retry = {} /\ run'[r].task = run[r].task
          /\ run'[r].pass = 0 /\ run'[r].fail = 0
      BY <1>1, <2>1, <2>2 DEF RunState
    <3>2. Working(r)' /\ ~Holding(r)' /\ Deferred(r)' = {}
      BY <3>1 DEF Working, Holding, Deferred
    <3>3. Pending(r)' = run[r].sel
      BY <3>1, <3>2 DEF Pending
    <3>4. /\ RowsOf({r})' = {} /\ Stored(r)' = {}
          /\ PassRows(r)' = {} /\ FailRows(r)' = {}
      BY <1>1, <1>2 DEF RowsOf, Stored, PassRows, FailRows
    <3>5. ExecutorInv(r)'
      BY <3>1, <3>2, <3>3 DEF ExecutorInv
    <3>6. TableInv(r)'
      BY <1>1, <1>5, <3>1, <3>2, <3>3, <3>4 DEF TableInv
    <3>7. HeldPass(r)' = 0 /\ HeldFail(r)' = 0
      BY <3>2 DEF HeldPass, HeldFail
    <3>8. CountInv(r)'
      <4>1. IsFiniteSet(RowsOf({r}))' /\ Cardinality(PassRows(r))' = 0
            /\ Cardinality(FailRows(r))' = 0
        BY <3>4, FS_EmptySet
      <4>2. /\ run'[r].pass = Cardinality(PassRows(r))' + HeldPass(r)'
            /\ run'[r].fail = Cardinality(FailRows(r))' + HeldFail(r)'
        BY <3>1, <3>7, <4>1
      <4>3. count'[r] = NoCount /\ run'[r].pc # "done"
        BY <1>1, <1>2, <3>1
      <4>4. QED
        BY <4>1, <4>2, <4>3 DEF CountInv
    <3>9. AcceptedInv(r)'
      BY <1>1, <3>1, <3>2 DEF AcceptedInv, RunInv
    <3>10. QED
      BY <1>1, <1>3, <3>5, <3>6, <3>8, <3>9, OneRun DEF RunInv
  <2>3. QED
    BY <1>1, <2>2 DEF RunInv, ExecutorInv
<1>6. QED
  BY <1>4, <1>5 DEF CreateResult

\* Storing the held outcome: its node was owed, so no row for it is there yet.
LEMMA StoreInductive ==
  ASSUME TypeOK, Inductive, NEW r \in Run, InsertJobResult(r), r \in result,
         run[r].srv > 0
  PROVE  Inductive'
<1> DEFINE x == [run |-> r, node |-> run[r].node, ok |-> run[r].ok, round |-> run[r].round]
<1>1. /\ run[r].pc = "insert" /\ run' = [run EXCEPT ![r].pc = "node"]
      /\ rows' = rows \cup {x}
      /\ UNCHANGED <<task, result, count, accepted, session>>
  BY DEF InsertJobResult
<1>2. /\ Keeps(r)
      /\ run'[r].pc = "node" /\ run'[r].node = run[r].node
      /\ run'[r].ok = run[r].ok /\ run'[r].round = run[r].round
      /\ run'[r].todo = run[r].todo /\ run'[r].retry = run[r].retry
      /\ run'[r].pass = run[r].pass /\ run'[r].fail = run[r].fail
  BY <1>1, MoveFields
<1>3. ExecutorInv(r) /\ TableInv(r) /\ CountInv(r) /\ AcceptedInv(r)
  BY DEF Inductive
<1>4. /\ Working(r) /\ Working(r)' /\ Holding(r) /\ ~Holding(r)'
      /\ Deferred(r)' = Deferred(r)
  BY <1>1, <1>2 DEF Working, Holding, Deferred
<1>5. run[r].node \notin run[r].todo \cup Deferred(r)
  BY <1>3, <1>4 DEF ExecutorInv
<1>6. /\ run[r].node \in Pending(r)
      /\ Pending(r)' = Pending(r) \ {run[r].node}
      /\ Pending(r) \subseteq run[r].sel
  BY <1>2, <1>3, <1>4, <1>5 DEF Pending, ExecutorInv
<1>7. Stored(r) = run[r].sel \ Pending(r)
  BY <1>3, <1>4 DEF TableInv
<1>8. x.run = r /\ x.node = run[r].node /\ x.ok = run[r].ok
  OBVIOUS
<1> HIDE DEF x
<1>9. RowsOf({r})' = RowsOf({r}) \cup {x}
  BY <1>1, <1>8 DEF RowsOf
<1>10. Stored(r)' = Stored(r) \cup {run[r].node}
  BY <1>8, <1>9 DEF Stored
<1>11. \A y \in RowsOf({r}) : y.node # run[r].node
  BY <1>6, <1>7 DEF Stored
<1>12. ExecutorInv(r)'
  BY <1>2, <1>3, <1>4, <1>6 DEF ExecutorInv, Keeps
<1>13. TableInv(r)'
  <2>1. run'[r].sel = run[r].sel /\ run'[r].task = run[r].task
    BY <1>2 DEF Keeps
  <2>2. Stored(r)' = run'[r].sel \ Pending(r)'
    BY <1>6, <1>7, <1>10, <2>1
  <2>3. ASSUME NEW y \in RowsOf({r})', NEW z \in RowsOf({r})', y.node = z.node
        PROVE  y = z
    <3>1. y \in RowsOf({r}) /\ z \in RowsOf({r}) => y = z
      BY <1>3, <2>3 DEF TableInv
    <3>2. y = x => z \notin RowsOf({r})
      BY <1>8, <1>11, <2>3
    <3>3. z = x => y \notin RowsOf({r})
      BY <1>8, <1>11, <2>3
    <3>4. QED
      BY <1>9, <2>3, <3>1, <3>2, <3>3
  <2>4. r \in result' /\ task'[run'[r].task] = "live"
    BY <1>1, <1>3, <2>1 DEF TableInv
  <2>5. QED
    BY <1>2, <1>4, <2>1, <2>2, <2>3, <2>4 DEF TableInv
<1>14. CountInv(r)'
  <2>1. IsFiniteSet(RowsOf({r}))
    BY <1>3 DEF CountInv
  <2>2. IsFiniteSet(PassRows(r)) /\ IsFiniteSet(FailRows(r))
    BY <2>1, FS_Subset DEF PassRows, FailRows, RowsOf
  <2>3. IsFiniteSet(RowsOf({r}))'
    BY <1>9, <2>1, FS_AddElement
  <2>4. x \notin PassRows(r) /\ x \notin FailRows(r)
    BY <1>8, <1>11 DEF PassRows, FailRows, RowsOf
  <2>5. run[r].ok \in BOOLEAN /\ run[r].pass \in Nat /\ run[r].fail \in Nat
    BY DEF TypeOK, RunState
  <2>6. /\ run[r].pass = Cardinality(PassRows(r)) + HeldPass(r)
        /\ run[r].fail = Cardinality(FailRows(r)) + HeldFail(r)
    BY <1>3, <1>4 DEF CountInv
  <2>7. HeldPass(r)' = 0 /\ HeldFail(r)' = 0
    BY <1>4 DEF HeldPass, HeldFail
  <2>8. Cardinality(PassRows(r)) \in Nat /\ Cardinality(FailRows(r)) \in Nat
    BY <2>2, FS_CardinalityType
  <2>9. /\ run'[r].pass = Cardinality(PassRows(r))'
        /\ run'[r].fail = Cardinality(FailRows(r))'
    <3>1. CASE run[r].ok
      <4>1. PassRows(r)' = PassRows(r) \cup {x} /\ FailRows(r)' = FailRows(r)
        BY <1>1, <1>8, <3>1 DEF PassRows, FailRows
      <4>2. HeldPass(r) = 1 /\ HeldFail(r) = 0
        BY <1>4, <2>5, <3>1 DEF HeldPass, HeldFail
      <4>3. Cardinality(PassRows(r) \cup {x}) = Cardinality(PassRows(r)) + 1
        BY <2>2, <2>4, FS_AddElement
      <4>4. run[r].fail = Cardinality(FailRows(r))
        BY <2>6, <2>8, <4>2
      <4>5. run[r].pass = Cardinality(PassRows(r) \cup {x})
        BY <2>6, <4>2, <4>3
      <4>6. QED
        BY <1>2, <4>1, <4>4, <4>5
    <3>2. CASE ~run[r].ok
      <4>1. FailRows(r)' = FailRows(r) \cup {x} /\ PassRows(r)' = PassRows(r)
        BY <1>1, <1>8, <3>2 DEF PassRows, FailRows
      <4>2. HeldPass(r) = 0 /\ HeldFail(r) = 1
        BY <1>4, <2>5, <3>2 DEF HeldPass, HeldFail
      <4>3. Cardinality(FailRows(r) \cup {x}) = Cardinality(FailRows(r)) + 1
        BY <2>2, <2>4, FS_AddElement
      <4>4. run[r].pass = Cardinality(PassRows(r))
        BY <2>6, <2>8, <4>2
      <4>5. run[r].fail = Cardinality(FailRows(r) \cup {x})
        BY <2>6, <4>2, <4>3
      <4>6. QED
        BY <1>2, <4>1, <4>4, <4>5
    <3>3. QED
      BY <3>1, <3>2
  <2>10. /\ run'[r].pass = Cardinality(PassRows(r))' + HeldPass(r)'
         /\ run'[r].fail = Cardinality(FailRows(r))' + HeldFail(r)'
    BY <1>2, <2>5, <2>7, <2>9
  <2>11. count'[r] = NoCount
    BY <1>1, <1>3 DEF CountInv
  <2>12. QED
    BY <1>2, <2>3, <2>10, <2>11 DEF CountInv
<1>15. AcceptedInv(r)'
  BY <1>1, <1>2, <1>3, <1>4 DEF AcceptedInv
<1>16. \A q \in Run \ {r} : run'[q] = run[q] /\ SameTables(q)
  <2>1. \A q \in Run \ {r} : RowsOf({q})' = RowsOf({q})
    BY <1>1, <1>8 DEF RowsOf
  <2>2. QED
    BY <1>1, <1>2, <2>1 DEF Keeps, SameTables
<1>17. QED
  BY <1>1, <1>12, <1>13, <1>14, <1>15, <1>16, OneRun DEF RunInv

\* An executor that gives up keeps what it stored.
LEMMA InsertInductive ==
  ASSUME TypeOK, Inductive, NEW r \in Run, InsertJobResult(r)
  PROVE  Inductive'
<1>0. run[r].srv \in Nat
  BY DEF TypeOK, RunState
<1>1. CASE r \in result /\ run[r].srv > 0
  BY <1>1, StoreInductive
<1>2. CASE r \notin result \/ run[r].srv = 0
  <2>1. /\ run[r].pc = "insert" /\ run' = [run EXCEPT ![r].pc = "lost"]
        /\ UNCHANGED <<task, result, count, rows, accepted, session>>
    BY <1>2 DEF InsertJobResult
  <2>2. Keeps(r) /\ run'[r].pc = "lost"
    BY <2>1, MoveFields
  <2>3. SameTables(r)
    BY <2>1 DEF SameTables, RowsOf
  <2>4. RunInv(r)'
    <3>1. ~Working(r)' /\ run'[r].pc = "lost" /\ Stored(r)' = Stored(r)
      BY <2>2, <2>3 DEF Working, Stored, SameTables
    <3>2. TableInv(r) /\ CountInv(r)
      BY DEF Inductive
    <3>3. ExecutorInv(r)'
      BY <3>1 DEF ExecutorInv
    <3>4. TableInv(r)'
      BY <2>1, <2>2, <2>3, <3>1, <3>2 DEF TableInv, SameTables, Keeps
    <3>5. CountInv(r)'
      BY <2>1, <2>3, <3>1, <3>2 DEF CountInv, SameTables
    <3>6. AcceptedInv(r)'
      BY <3>1 DEF AcceptedInv
    <3>7. QED
      BY <3>3, <3>4, <3>5, <3>6 DEF RunInv
  <2>5. QED
    BY <2>1, <2>2, <2>4, OneRun DEF Keeps, SameTables, RowsOf
<1>3. QED
  BY <1>0, <1>1, <1>2

\* Closing: nothing is owed any more, so the counters are those of the stored rows.
LEMMA CloseInductive ==
  ASSUME TypeOK, Inductive, NEW r \in Run, CloseResult(r)
  PROVE  Inductive'
<1>1. /\ run[r].pc = "node" /\ run[r].todo = {}
      /\ run[r].round = 2 \/ run[r].retry = {}
      /\ run' = [run EXCEPT ![r].pc = "done"]
      /\ count' = IF r \in result
                  THEN [count EXCEPT ![r] = [pass |-> run[r].pass, fail |-> run[r].fail]]
                  ELSE count
      /\ UNCHANGED <<task, result, rows, accepted, session>>
  <2>1. run[r].round \in {1, 2}
    BY DEF TypeOK, RunState
  <2>2. QED
    BY <2>1 DEF CloseResult, RetryDue, Totals
<1>2. Keeps(r) /\ run'[r].pc = "done"
  BY <1>1, MoveFields
<1>3. TableInv(r) /\ CountInv(r)
  BY DEF Inductive
<1>4. Working(r) /\ ~Holding(r) /\ Deferred(r) = {}
  BY <1>1 DEF Working, Holding, Deferred
<1>5. Pending(r) = {}
  BY <1>1, <1>4 DEF Pending
<1>6. /\ RowsOf({r})' = RowsOf({r}) /\ Stored(r)' = Stored(r)
      /\ PassRows(r)' = PassRows(r) /\ FailRows(r)' = FailRows(r)
  BY <1>1 DEF RowsOf, Stored, PassRows, FailRows
<1>7. ~Working(r)' /\ run'[r].sel = run[r].sel /\ run'[r].task = run[r].task
  BY <1>2 DEF Working, Keeps
<1>8. ExecutorInv(r)' /\ AcceptedInv(r)'
  BY <1>2, <1>7 DEF ExecutorInv, AcceptedInv
<1>9. TableInv(r)'
  <2>1. /\ Stored(r)' \subseteq run'[r].sel
        /\ \A y, z \in RowsOf({r})' : y.node = z.node => y = z
        /\ r \notin result' => RowsOf({r})' = {}
    BY <1>1, <1>3, <1>6, <1>7 DEF TableInv
  <2>2. r \in result' => task'[run'[r].task] = "live" /\ Stored(r)' = run'[r].sel
    BY <1>1, <1>3, <1>4, <1>5, <1>6, <1>7 DEF TableInv
  <2>3. QED
    BY <1>2, <1>7, <2>1, <2>2 DEF TableInv
<1>10. CountInv(r)'
  <2>1. HeldPass(r) = 0 /\ HeldFail(r) = 0
    BY <1>4 DEF HeldPass, HeldFail
  <2>2. IsFiniteSet(RowsOf({r}))
    BY <1>3 DEF CountInv
  <2>3. IsFiniteSet(PassRows(r)) /\ IsFiniteSet(FailRows(r))
    BY <2>2, FS_Subset DEF PassRows, FailRows, RowsOf
  <2>4. Cardinality(PassRows(r)) \in Nat /\ Cardinality(FailRows(r)) \in Nat
    BY <2>3, FS_CardinalityType
  <2>5. r \in result => /\ run[r].pass = Cardinality(PassRows(r)) + HeldPass(r)
                       /\ run[r].fail = Cardinality(FailRows(r)) + HeldFail(r)
    BY <1>3, <1>4 DEF CountInv
  <2>6. r \in result => /\ run[r].pass = Cardinality(PassRows(r))
                       /\ run[r].fail = Cardinality(FailRows(r))
    BY <2>1, <2>4, <2>5
  <2>7. r \in result => count'[r] = [pass |-> run[r].pass, fail |-> run[r].fail]
    BY <1>1 DEF TypeOK
  <2>8. r \in result' => count'[r] = [pass |-> Cardinality(PassRows(r))',
                                     fail |-> Cardinality(FailRows(r))']
    BY <1>1, <1>6, <2>6, <2>7
  <2>9. QED
    BY <1>2, <1>6, <1>7, <2>2, <2>8 DEF CountInv
<1>11. \A q \in Run \ {r} : run'[q] = run[q] /\ SameTables(q)
  BY <1>1, <1>2 DEF Keeps, SameTables, RowsOf, TypeOK
<1>12. QED
  BY <1>1, <1>8, <1>9, <1>10, <1>11, OneRun DEF RunInv

LEMMA ExecutorInductive ==
  ASSUME NEW r \in Run, TypeOK, Inductive, Executor(r) PROVE Inductive'
<1>1. CASE ReadTask(r)
  <2>1. run[r] \in RunState /\ ExecutorInv(r) /\ run[r].pc = "read"
        /\ UNCHANGED <<task, tableVars, accepted, session>>
    BY <1>1 DEF TypeOK, Inductive, ReadTask
  <2>2. /\ run'[r].pc \in {"create", "orphan"}
        /\ run'[r].round = run[r].round /\ run'[r].retry = run[r].retry
        /\ run'[r].pass = run[r].pass /\ run'[r].fail = run[r].fail
        /\ \A q \in Run \ {r} : run'[q] = run[q]
    BY <1>1, <2>1 DEF ReadTask, TypeOK, RunState
  <2>3. Early(r) /\ Early(r)' /\ ExecutorInv(r)'
    BY <2>1, <2>2 DEF Early, ExecutorInv, Working
  <2>4. \A q \in Run : SameTables(q)
    BY <2>1 DEF SameTables, RowsOf
  <2>5. RunInv(r)'
    BY <2>3, <2>4, EarlyRun DEF Inductive, RunInv
  <2>6. QED
    BY <2>1, <2>2, <2>4, <2>5, OneRun
<1>2. CASE DropOrphanJob(r)
  <2>1. run[r].pc = "orphan" /\ run' = [run EXCEPT ![r] = FreshRun]
        /\ UNCHANGED <<task, tableVars, accepted, session>>
    BY <1>2 DEF DropOrphanJob
  <2>2. run'[r].pc = "idle" /\ \A q \in Run \ {r} : run'[q] = run[q]
    BY <2>1 DEF FreshRun, TypeOK
  <2>3. Early(r) /\ Early(r)' /\ ExecutorInv(r)'
    BY <2>1, <2>2 DEF Early, ExecutorInv, Working
  <2>4. \A q \in Run : SameTables(q)
    BY <2>1 DEF SameTables, RowsOf
  <2>5. RunInv(r)'
    BY <2>3, <2>4, EarlyRun DEF Inductive, RunInv
  <2>6. QED
    BY <2>1, <2>2, <2>4, <2>5, OneRun
<1>3. CASE CreateResult(r)
  BY <1>3, CreateInductive
<1>4. ASSUME NEW n \in Node, ScheduleOk(r, n) \/ ScheduleFailed(r, n) PROVE Inductive'
  BY <1>4, ScheduleInductive
<1>5. CASE CheckResult(r)
  BY <1>5, CheckInductive
<1>6. CASE InsertJobResult(r)
  BY <1>6, InsertInductive
<1>7. CASE StartRetry(r)
  BY <1>7, RetryInductive
<1>8. CASE CloseResult(r)
  BY <1>8, CloseInductive
<1>9. QED
  BY <1>1, <1>2, <1>3, <1>4, <1>5, <1>6, <1>7, <1>8 DEF Executor

-----------------------------------------------------------------------------
(* The theorems.                                                           *)

LEMMA NextInductive == TypeOK /\ Inductive /\ [Next]_vars => Inductive'
<1> SUFFICES ASSUME TypeOK, Inductive, [Next]_vars PROVE Inductive'
  OBVIOUS
<1>1. CASE Next
  BY <1>1, HandlerInductive, DeletionInductive, SchedulerInductive, ExecutorInductive,
     EnvironmentInductive DEF Next
<1>2. CASE UNCHANGED vars
  BY <1>2, NoRun DEF vars
<1>3. QED
  BY <1>1, <1>2

\* The inductive invariant holds of every behaviour.
THEOREM InductiveCorrect == Spec => [](TypeOK /\ Inductive)
<1>1. Init => TypeOK /\ Inductive
  BY InitTypeOK, InitInductive
<1>2. (TypeOK /\ Inductive) /\ [Next]_vars => (TypeOK /\ Inductive)'
  BY NextTypeOK, NextInductive
<1>3. QED
  BY <1>1, <1>2, PTL DEF Spec

\* A closed result has one outcome per selected node and the matching totals.
THEOREM ClosedIsCompleteCorrect == Spec => []ClosedIsComplete
<1>1. TypeOK /\ Inductive => ClosedIsComplete
  <2> SUFFICES ASSUME TypeOK, Inductive, NEW r \in result, run[r].pc = "done"
               PROVE  /\ {x.node : x \in RowsOf({r})} = run[r].sel
                      /\ count[r] = [pass |-> Cardinality(PassRows(r)),
                                     fail |-> Cardinality(FailRows(r))]
    BY DEF ClosedIsComplete
  <2>1. r \in Run
    BY DEF TypeOK
  <2>2. QED
    BY <2>1 DEF Inductive, TableInv, CountInv, Stored
<1>2. QED
  BY <1>1, InductiveCorrect, PTL

\* No firing ever stores two outcomes for one node, nor one for a node not selected.
THEOREM OneOutcomePerNodeCorrect == Spec => []OneOutcomePerNode
<1>1. TypeOK /\ Inductive => OneOutcomePerNode
  <2> SUFFICES ASSUME TypeOK, Inductive PROVE OneOutcomePerNode
    OBVIOUS
  <2>1. ASSUME NEW x \in rows PROVE x.run \in Run /\ x \in RowsOf({x.run})
    BY DEF TypeOK, Row, RowsOf
  <2>2. ASSUME NEW x \in rows, NEW y \in rows, x.run = y.run, x.node = y.node
        PROVE  x = y
    <3>1. x \in RowsOf({x.run}) /\ y \in RowsOf({x.run}) /\ TableInv(x.run)
      BY <2>1, <2>2 DEF Inductive
    <3>2. QED
      BY <2>2, <3>1 DEF TableInv
  <2>3. ASSUME NEW x \in rows PROVE x.node \in run[x.run].sel
    <3>1. x \in RowsOf({x.run}) /\ TableInv(x.run)
      BY <2>1 DEF Inductive
    <3>2. QED
      BY <3>1 DEF TableInv, Stored
  <2>4. QED
    BY <2>2, <2>3 DEF OneOutcomePerNode
<1>2. QED
  BY <1>1, InductiveCorrect, PTL

\* The cleanup takes nothing from a running executor and its commit cannot fail.
THEOREM CleanupTakesOnlyClosedCorrect == Spec => []CleanupTakesOnlyClosed
<1>1. Inductive => CleanupTakesOnlyClosed
  BY DEF Inductive, SessionInv, CleanupTakesOnlyClosed
<1>2. QED
  BY <1>1, InductiveCorrect, PTL

LEMMA OnlySchedulePosts ==
  ASSUME TypeOK, [Next]_vars, NEW r \in Run, NEW n \in Node,
         accepted'[r][n] # accepted[r][n]
  PROVE  NextNode(r, n)
<1>1. CASE \E q \in Run, m \in Node : ScheduleOk(q, m) \/ ScheduleFailed(q, m)
  <2>1. PICK q \in Run, m \in Node : ScheduleOk(q, m) \/ ScheduleFailed(q, m)
    BY <1>1
  <2>2. NextNode(q, m)
        /\ (UNCHANGED accepted \/ accepted' = [accepted EXCEPT ![q][m] = @ + 1])
    BY <2>1 DEF ScheduleOk, ScheduleFailed
  <2>3. q = r /\ m = n
    <3>1. accepted' = [accepted EXCEPT ![q][m] = accepted[q][m] + 1]
      BY <2>2
    <3>2. accepted \in [Run -> [Node -> Nat]]
      BY DEF TypeOK
    <3>3. q # r => accepted'[r] = accepted[r]
      BY <3>1, <3>2
    <3>4. q = r /\ m # n => accepted'[r][n] = accepted[r][n]
      BY <3>1, <3>2
    <3>5. QED
      BY <3>3, <3>4
  <2>4. QED
    BY <2>2, <2>3
<1>2. CASE Handler
  BY <1>2 DEF Handler, InsertTask, StageUpdate, AddJob, ReplaceJob, RollbackUpdate,
     CommitUpdate, PauseJob, ResumeJob, RemoveJob, SetJob, ToggleScheduler
<1>3. CASE \E s \in Session : Deletion(s)
  BY <1>3 DEF Deletion, BeginDeleteTask, LoadTask, LoadResult, LoadBeyondLimit,
     LoadTooOld, CommitDelete
<1>4. CASE \E t \in Task : Scheduler(t)
  BY <1>4 DEF Scheduler, Fire, SkipLastFiring
<1>5. CASE Environment
  BY <1>5 DEF Environment, EditServers, Crash, Restart
<1>6. CASE \E q \in Run : \/ ReadTask(q) \/ DropOrphanJob(q) \/ CreateResult(q)
                         \/ CheckResult(q) \/ InsertJobResult(q)
                         \/ StartRetry(q) \/ CloseResult(q)
  BY <1>6 DEF ReadTask, DropOrphanJob, CreateResult, CheckResult, InsertJobResult,
     StartRetry, CloseResult
<1>7. CASE UNCHANGED vars
  BY <1>7 DEF vars
<1>8. QED
  BY <1>1, <1>2, <1>3, <1>4, <1>5, <1>6, <1>7 DEF Next, Executor

\* After a node has acknowledged the job it is not asked again, and no node is
\* given the job more than twice.
THEOREM NoRepeatAfterAckCorrect == Spec => NoRepeatAfterAck
<1> DEFINE Step == \A r \in Run, n \in Node :
        accepted'[r][n] # accepted[r][n] => ~Acknowledged(r, n) /\ accepted[r][n] < 2
<1>1. TypeOK /\ Inductive /\ [Next]_vars => Step
  <2> SUFFICES ASSUME TypeOK, Inductive, [Next]_vars, NEW r \in Run, NEW n \in Node,
                      accepted'[r][n] # accepted[r][n]
               PROVE  ~Acknowledged(r, n) /\ accepted[r][n] < 2
    OBVIOUS
  <2>1. run[r].pc = "node" /\ n \in run[r].todo /\ Working(r)
    BY OnlySchedulePosts DEF NextNode, Working
  <2>2. accepted[r][n] < 2
    BY <2>1 DEF Inductive, AcceptedInv
  <2>3. n \notin Stored(r)
    <3>1. n \in Pending(r)
      BY <2>1 DEF Pending
    <3>2. QED
      BY <2>1, <3>1 DEF Inductive, TableInv, Stored
  <2>4. \A x \in rows : x.run = r => x.node # n
    BY <2>3 DEF Stored, RowsOf
  <2>5. ~Acknowledged(r, n)
    BY <2>1, <2>4 DEF Acknowledged
  <2>6. QED
    BY <2>2, <2>5
<1>2. Spec => [][Step]_vars
  BY <1>1, InductiveCorrect, PTL DEF Spec
<1>3. QED
  BY <1>2 DEF NoRepeatAfterAck

LEMMA ClosedStays ==
  ASSUME TypeOK, Inductive, [Next]_vars, NEW r \in Run, run[r].pc = "done"
  PROVE  \/ r \notin result'
         \/ count'[r] = count[r] /\ RowsOf({r})' = RowsOf({r})
<1>1. CASE \E q \in Run, n \in Node : ScheduleOk(q, n) \/ ScheduleFailed(q, n)
  BY <1>1 DEF ScheduleOk, ScheduleFailed, RowsOf
<1>2. CASE Handler
  BY <1>2 DEF Handler, InsertTask, StageUpdate, AddJob, ReplaceJob, RollbackUpdate,
     CommitUpdate, PauseJob, ResumeJob, RemoveJob, SetJob, ToggleScheduler, RowsOf
<1>3. ASSUME NEW s \in Session, Deletion(s)
      PROVE  r \notin result' \/ (count'[r] = count[r] /\ RowsOf({r})' = RowsOf({r}))
  <2>1. CASE CommitDelete(s)
    <3>1. \A x \in session[s].rows : x.run \in session[s].results
      BY DEF Inductive, SessionInv
    <3>2. count' = count
      BY <2>1 DEF CommitDelete
    <3>3. CASE r \in session[s].results /\ KeysHold(s)
      BY <2>1, <3>3 DEF CommitDelete
    <3>4. CASE r \notin session[s].results /\ KeysHold(s)
      BY <2>1, <3>1, <3>2, <3>4 DEF CommitDelete, RowsOf
    <3>5. CASE ~KeysHold(s)
      BY <2>1, <3>2, <3>5 DEF CommitDelete, RowsOf
    <3>6. QED
      BY <3>3, <3>4, <3>5
  <2>2. CASE ~CommitDelete(s)
    BY <1>3, <2>2 DEF Deletion, BeginDeleteTask, LoadTask, LoadResult, LoadBeyondLimit,
       LoadTooOld, RowsOf
  <2>3. QED
    BY <2>1, <2>2
<1>4. CASE \E t \in Task : Scheduler(t)
  BY <1>4 DEF Scheduler, Fire, SkipLastFiring, RowsOf
<1>5. CASE Environment
  BY <1>5 DEF Environment, EditServers, Crash, Restart, RowsOf
<1>6. CASE \E q \in Run : ReadTask(q) \/ DropOrphanJob(q) \/ CreateResult(q)
                         \/ CheckResult(q) \/ StartRetry(q)
  BY <1>6 DEF ReadTask, DropOrphanJob, CreateResult, CheckResult, StartRetry, RowsOf
<1>7. ASSUME NEW q \in Run, InsertJobResult(q)
      PROVE  count'[r] = count[r] /\ RowsOf({r})' = RowsOf({r})
  <2>1. q # r
    BY <1>7 DEF InsertJobResult
  <2>2. QED
    BY <1>7, <2>1 DEF InsertJobResult, RowsOf
<1>8. ASSUME NEW q \in Run, CloseResult(q)
      PROVE  count'[r] = count[r] /\ RowsOf({r})' = RowsOf({r})
  <2>1. q # r
    BY <1>8 DEF CloseResult
  <2>2. QED
    BY <1>8, <2>1 DEF CloseResult, RowsOf, TypeOK
<1>9. CASE UNCHANGED vars
  BY <1>9 DEF vars, RowsOf
<1>10. QED
  BY <1>1, <1>2, <1>3, <1>4, <1>5, <1>6, <1>7, <1>8, <1>9 DEF Next, Executor

\* Totals and outcomes on the history page never change: they go, with their row.
THEOREM ClosedIsFinalCorrect == Spec => ClosedIsFinal
<1> DEFINE Step == \A r \in result :
        Counted(r) => \/ r \notin result'
                      \/ /\ count'[r] = count[r]
                         /\ RowsOf({r})' = RowsOf({r})
<1>1. TypeOK /\ Inductive /\ [Next]_vars => Step
  <2> SUFFICES ASSUME TypeOK, Inductive, [Next]_vars, NEW r \in result, Counted(r)
               PROVE  \/ r \notin result'
                      \/ count'[r] = count[r] /\ RowsOf({r})' = RowsOf({r})
    OBVIOUS
  <2>1. r \in Run /\ run[r].pc = "done"
    BY CountedIsClosed DEF TypeOK
  <2>2. QED
    BY <2>1, ClosedStays
<1>2. Spec => [][Step]_vars
  BY <1>1, InductiveCorrect, PTL DEF Spec
<1>3. QED
  BY <1>2 DEF ClosedIsFinal

-----------------------------------------------------------------------------
(* The refinement: what the tables show is a behaviour of TaskHistory.     *)

\* What the history page shows of firing r is as before.
SameView(r) ==
    /\ PhaseOf(r)' = PhaseOf(r) /\ WantedOf(r)' = WantedOf(r)
    /\ GoodOf(r)' = GoodOf(r) /\ BadOf(r)' = BadOf(r) /\ TotalOf(r)' = TotalOf(r)

\* A row that was inserted has its place in the order, for good.
StampInv(r) == (Early(r) => stamp[r] = 0) /\ (r \in result => stamp[r] > 0)
Stamped == \A r \in Run : StampInv(r)
Shown == Stamped' /\ (History!Next \/ UNCHANGED History!vars)

LEMMA ViewStutters ==
  ASSUME \A r \in Run : SameView(r)
  PROVE  UNCHANGED History!vars
BY DEF History!vars, SameView

LEMMA ViewOpens ==
  ASSUME NEW r \in Run, \A q \in Run \ {r} : SameView(q),
         PhaseOf(r) = "idle", PhaseOf(r)' = "open", WantedOf(r)' \in SUBSET Node,
         GoodOf(r)' = GoodOf(r), BadOf(r)' = BadOf(r), TotalOf(r)' = TotalOf(r)
  PROVE  History!Next
<1>1. History!Open(r, WantedOf(r)')
  BY DEF History!Open, SameView
<1>2. QED
  BY <1>1 DEF History!Next

LEMMA ViewJudges ==
  ASSUME NEW r \in Run, \A q \in Run \ {r} : SameView(q),
         PhaseOf(r) = "open", PhaseOf(r)' = "open",
         WantedOf(r)' = WantedOf(r), TotalOf(r)' = TotalOf(r),
         NEW n \in Node, n \in WantedOf(r) \ (GoodOf(r) \cup BadOf(r)),
         \/ GoodOf(r)' = GoodOf(r) \cup {n} /\ BadOf(r)' = BadOf(r)
         \/ BadOf(r)' = BadOf(r) \cup {n} /\ GoodOf(r)' = GoodOf(r)
  PROVE  History!Next
<1>1. History!Judge(r, n)
  BY DEF History!Judge, SameView
<1>2. QED
  BY <1>1 DEF History!Next

LEMMA ViewCloses ==
  ASSUME NEW r \in Run, \A q \in Run \ {r} : SameView(q),
         PhaseOf(r) = "open", PhaseOf(r)' = "closed", WantedOf(r) = GoodOf(r) \cup BadOf(r),
         WantedOf(r)' = WantedOf(r), GoodOf(r)' = GoodOf(r), BadOf(r)' = BadOf(r),
         TotalOf(r)' = [pass |-> Cardinality(GoodOf(r)), fail |-> Cardinality(BadOf(r))]
  PROVE  History!Next
<1>0. [q \in Run |-> GoodOf(q)][r] = GoodOf(r) /\ [q \in Run |-> BadOf(q)][r] = BadOf(r)
  OBVIOUS
<1>1. History!Close(r)
  BY <1>0 DEF History!Close, SameView, Cardinality, History!Cardinality
<1>2. QED
  BY <1>1 DEF History!Next

LEMMA ViewCuts ==
  ASSUME NEW R \in SUBSET Run, \A q \in Run \ R : SameView(q),
         \A q \in R : /\ PhaseOf(q) = "open" /\ PhaseOf(q)' = "cut"
                      /\ WantedOf(q)' = WantedOf(q) /\ GoodOf(q)' = GoodOf(q)
                      /\ BadOf(q)' = BadOf(q) /\ TotalOf(q)' = TotalOf(q)
  PROVE  History!Next
<1>1. History!Cut(R)
  BY DEF History!Cut, SameView
<1>2. QED
  BY <1>1 DEF History!Next

LEMMA ViewDrops ==
  ASSUME NEW R \in SUBSET Run, \A q \in Run \ R : SameView(q),
         \A q \in R : /\ PhaseOf(q) # "idle" /\ PhaseOf(q)' = "dropped"
                      /\ WantedOf(q)' = {} /\ GoodOf(q)' = {}
                      /\ BadOf(q)' = {} /\ TotalOf(q)' = NoCount
  PROVE  History!Next
<1>1. History!Drop(R)
  BY DEF History!Drop, SameView, History!Blank, NoCount
<1>2. QED
  BY <1>1 DEF History!Next

\* The rows of firing r are the same, or the same firings have one.
LEMMA SameRows ==
  ASSUME NEW r \in Run, RowsOf({r})' = RowsOf({r})
  PROVE  GoodOf(r)' = GoodOf(r) /\ BadOf(r)' = BadOf(r)
<1>1. RowsOf({r}) = {x \in rows : x.run = r} /\ RowsOf({r})' = {x \in rows' : x.run = r}
  BY DEF RowsOf
<1>2. PassRows(r)' = PassRows(r) /\ FailRows(r)' = FailRows(r)
  BY <1>1 DEF PassRows, FailRows
<1>3. QED
  BY <1>2 DEF GoodOf, BadOf

\* A firing goes on, or not at all, between its row and its end.
LEMMA GoesOn ==
  ASSUME NEW r \in Run, StampInv(r), stamp'[r] = stamp[r], RowsOf({r})' = RowsOf({r}),
         r \in result' <=> r \in result, count'[r] = count[r],
         Early(r)' => Early(r),
         r \in result => /\ run'[r].sel = run[r].sel
                         /\ run'[r].pc = "done" <=> run[r].pc = "done"
                         /\ run'[r].pc = "lost" <=> run[r].pc = "lost"
  PROVE  SameView(r) /\ StampInv(r)'
<1>1. PhaseOf(r)' = PhaseOf(r)
  BY DEF PhaseOf
<1>2. WantedOf(r)' = WantedOf(r) /\ TotalOf(r)' = TotalOf(r)
  BY DEF WantedOf, TotalOf
<1>3. StampInv(r)'
  BY DEF StampInv
<1>4. QED
  BY <1>1, <1>2, <1>3, SameRows DEF SameView

LEMMA EarlyHasNone ==
  ASSUME NEW r \in Run, StampInv(r), Early(r)
  PROVE  r \notin result
BY DEF StampInv

\* A step that leaves the tables alone, and of the firings changes at most where one is.
LEMMA TablesStay ==
  ASSUME Stamped, UNCHANGED tableVars,
         \A r \in Run : \/ run'[r] = run[r]
                        \/ Early(r) /\ run'[r].pc \notin {"done", "lost"}
                        \/ /\ Working(r) /\ Working(r)' /\ run'[r].sel = run[r].sel
  PROVE  Shown
<1>1. ASSUME NEW r \in Run PROVE SameView(r) /\ StampInv(r)'
  <2>1. /\ RowsOf({r})' = RowsOf({r}) /\ UNCHANGED stamp /\ count'[r] = count[r]
        /\ (r \in result' <=> r \in result)
    BY DEF RowsOf
  <2>2. StampInv(r)
    BY DEF Stamped
  <2>3. Early(r)' => Early(r)
    BY DEF Early, Working
  <2>4. r \in result => /\ run'[r].sel = run[r].sel
                        /\ run'[r].pc = "done" <=> run[r].pc = "done"
                        /\ run'[r].pc = "lost" <=> run[r].pc = "lost"
    BY <2>2, EarlyHasNone DEF Working
  <2>5. QED
    BY <2>1, <2>2, <2>3, <2>4, GoesOn
<1>2. QED
  BY <1>1, ViewStutters DEF Stamped, Shown

\* A step of firing r that keeps its record in History.
LEMMA OthersStay ==
  ASSUME Stamped, NEW r \in Run,
         \A q \in Run \ {r} : /\ (q \in result' <=> q \in result)
                              /\ run'[q] = run[q] /\ stamp'[q] = stamp[q]
                              /\ count'[q] = count[q] /\ RowsOf({q})' = RowsOf({q})
  PROVE  \A q \in Run \ {r} : SameView(q) /\ StampInv(q)'
<1> SUFFICES ASSUME NEW q \in Run \ {r} PROVE SameView(q) /\ StampInv(q)'
  OBVIOUS
<1>1. StampInv(q) /\ run'[q] = run[q] /\ stamp'[q] = stamp[q]
      /\ count'[q] = count[q] /\ RowsOf({q})' = RowsOf({q}) /\ (q \in result' <=> q \in result)
  BY DEF Stamped
<1>2. Early(q)' => Early(q)
  BY <1>1 DEF Early
<1>3. QED
  BY <1>1, <1>2, GoesOn

LEMMA CreateView ==
  ASSUME TypeOK, Inductive, Stamped, NEW r \in Run, CreateResult(r)
  PROVE  Shown
<1>1. /\ run[r].pc = "create" /\ run[r] \in RunState /\ Early(r) /\ r \notin result
      /\ stamp[r] = 0 /\ count[r] = NoCount
  BY EarlyHasNone DEF CreateResult, TypeOK, Early, Stamped, StampInv, Inductive, CountInv
<1>2. CASE run' = [run EXCEPT ![r] = FreshRun] /\ UNCHANGED <<result, stamp, count, rows>>
  <2>1. \A q \in Run : run'[q] = run[q] \/ (Early(q) /\ run'[q].pc \notin {"done", "lost"})
    BY <1>1, <1>2 DEF FreshRun, TypeOK
  <2>2. QED
    BY <1>2, <2>1, TablesStay
<1>3. CASE /\ result' = result \cup {r}
           /\ stamp' = [stamp EXCEPT ![r] = 1 + Cardinality({q \in Run : stamp[q] > 0})]
           /\ run' = [run EXCEPT ![r].pc = "node", ![r].todo = run[r].sel]
           /\ UNCHANGED <<count, rows>>
  <2>1. run'[r].pc = "node" /\ run'[r].sel = run[r].sel /\ run[r].sel \in SUBSET Node
    BY <1>1, <1>3 DEF TypeOK, RunState
  <2>2. stamp'[r] > 0
    BY <1>3, StampIsNat DEF TypeOK
  <2>3. ASSUME NEW q \in Run PROVE RowsOf({q})' = RowsOf({q})
    BY <1>3 DEF RowsOf
  <2>4. \A q \in Run \ {r} : SameView(q) /\ StampInv(q)'
    <3>1. \A q \in Run \ {r} : /\ (q \in result' <=> q \in result)
                              /\ run'[q] = run[q] /\ stamp'[q] = stamp[q]
                              /\ count'[q] = count[q] /\ RowsOf({q})' = RowsOf({q})
      BY <1>3, <2>3 DEF TypeOK
    <3>2. QED
      BY <3>1, OthersStay
  <2>5. PhaseOf(r) = "idle" /\ PhaseOf(r)' = "open"
    BY <1>1, <1>3, <2>1 DEF PhaseOf
  <2>6. WantedOf(r)' \in SUBSET Node /\ TotalOf(r)' = TotalOf(r)
    BY <1>1, <1>3, <2>1 DEF WantedOf, TotalOf
  <2>7. History!Next
    BY <2>3, <2>4, <2>5, <2>6, SameRows, ViewOpens
  <2>8. StampInv(r)'
    BY <2>1, <2>2 DEF StampInv, Early
  <2>9. QED
    BY <2>4, <2>7, <2>8 DEF Stamped, Shown
<1>4. QED
  BY <1>2, <1>3 DEF CreateResult

\* The held outcome is stored, of a node that has none; or the executor gives up.
LEMMA InsertView ==
  ASSUME TypeOK, Inductive, Stamped, NEW r \in Run, InsertJobResult(r)
  PROVE  Shown
<1>1. /\ run[r].pc = "insert" /\ run[r] \in RunState /\ StampInv(r)
      /\ ExecutorInv(r) /\ TableInv(r) /\ CountInv(r) /\ run[r].ok \in BOOLEAN
  BY DEF InsertJobResult, TypeOK, Stamped, Inductive, RunState
<1>2. CASE /\ r \in result
           /\ rows' = rows \cup {[run |-> r, node |-> run[r].node,
                                  ok |-> run[r].ok, round |-> run[r].round]}
           /\ run' = [run EXCEPT ![r].pc = "node"]
           /\ UNCHANGED <<result, count, stamp>>
  <2> DEFINE x == [run |-> r, node |-> run[r].node, ok |-> run[r].ok, round |-> run[r].round]
             n == run[r].node
  <2>1. Keeps(r) /\ run'[r].pc = "node" /\ run'[r].sel = run[r].sel
    BY <1>2, MoveFields DEF Keeps
  <2>2. x.run = r /\ x.node = n /\ x.ok = run[r].ok /\ rows' = rows \cup {x}
    BY <1>2
  <2>3. Holding(r) /\ Working(r) /\ n \in Pending(r)
    BY <1>1 DEF Holding, Working, Pending
  <2>4. n \in run[r].sel \ Stored(r) /\ n \in Node
    BY <1>1, <1>2, <2>3 DEF ExecutorInv, TableInv, RunState
  <2> HIDE DEF x, n
  <2>5. GoodOf(r) \cup BadOf(r) \subseteq Stored(r)
    BY DEF GoodOf, BadOf, PassRows, FailRows, Stored, RowsOf
  <2>6. \A q \in Run \ {r} : SameView(q) /\ StampInv(q)'
    <3>1. \A q \in Run \ {r} : RowsOf({q})' = RowsOf({q})
      BY <2>2 DEF RowsOf
    <3>2. QED
      BY <1>2, <2>1, <3>1, OthersStay DEF Keeps
  <2>7. PhaseOf(r) = "open" /\ PhaseOf(r)' = "open"
    BY <1>1, <1>2, <2>1 DEF PhaseOf
  <2>8. WantedOf(r)' = WantedOf(r) /\ TotalOf(r)' = TotalOf(r) /\ WantedOf(r) = run[r].sel
    BY <1>2, <2>1 DEF WantedOf, TotalOf
  <2>9. \/ GoodOf(r)' = GoodOf(r) \cup {n} /\ BadOf(r)' = BadOf(r)
        \/ BadOf(r)' = BadOf(r) \cup {n} /\ GoodOf(r)' = GoodOf(r)
    <3>1. CASE run[r].ok
      <4>1. PassRows(r)' = PassRows(r) \cup {x} /\ FailRows(r)' = FailRows(r)
        BY <2>2, <3>1 DEF PassRows, FailRows
      <4>2. QED
        BY <2>2, <4>1 DEF GoodOf, BadOf
    <3>2. CASE ~run[r].ok
      <4>1. FailRows(r)' = FailRows(r) \cup {x} /\ PassRows(r)' = PassRows(r)
        BY <2>2, <3>2 DEF PassRows, FailRows
      <4>2. QED
        BY <2>2, <4>1 DEF GoodOf, BadOf
    <3>3. QED
      BY <3>1, <3>2
  <2>10. History!Next
    BY <2>4, <2>5, <2>6, <2>7, <2>8, <2>9, ViewJudges
  <2>11. StampInv(r)'
    BY <1>1, <1>2, <2>1 DEF StampInv, Early
  <2>12. QED
    BY <2>6, <2>10, <2>11 DEF Shown, Stamped
<1>3. CASE /\ r \notin result \/ run[r].srv = 0
           /\ run' = [run EXCEPT ![r].pc = "lost"]
           /\ UNCHANGED <<result, count, stamp, rows>>
  <2>1. Keeps(r) /\ run'[r].pc = "lost" /\ run'[r].sel = run[r].sel
    BY <1>3, MoveFields DEF Keeps
  <2>2. \A q \in Run : RowsOf({q})' = RowsOf({q})
    BY <1>3 DEF RowsOf
  <2>3. \A q \in Run \ {r} : SameView(q) /\ StampInv(q)'
    BY <1>3, <2>1, <2>2, OthersStay DEF Keeps
  <2>4. /\ WantedOf(r)' = WantedOf(r) /\ TotalOf(r)' = TotalOf(r)
        /\ GoodOf(r)' = GoodOf(r) /\ BadOf(r)' = BadOf(r)
    BY <1>3, <2>1, <2>2, SameRows DEF WantedOf, TotalOf
  <2>5. StampInv(r)'
    BY <1>1, <1>3, <2>1 DEF StampInv, Early
  <2>6. CASE r \in result
    <3>1. PhaseOf(r) = "open" /\ PhaseOf(r)' = "cut"
      BY <1>1, <1>3, <2>1, <2>6 DEF PhaseOf
    <3>2. History!Next
      <4>1. \A q \in Run \ {r} : SameView(q)
        BY <2>3
      <4>2. QED
        BY <2>4, <3>1, <4>1, ViewCuts, {r} \in SUBSET Run
    <3>3. QED
      BY <2>3, <2>5, <3>2 DEF Shown, Stamped
  <2>7. CASE r \notin result
    <3>1. SameView(r)
      BY <1>3, <2>4, <2>7 DEF PhaseOf, SameView
    <3>2. \A q \in Run : SameView(q) /\ StampInv(q)'
      BY <2>3, <2>5, <3>1
    <3>3. QED
      BY <3>2, ViewStutters DEF Shown, Stamped
  <2>8. QED
    BY <2>6, <2>7
<1>4. QED
  BY <1>2, <1>3 DEF InsertJobResult

\* One outcome per node: as many rows as nodes.
LEMMA NodesOfRows ==
  ASSUME NEW R, IsFiniteSet(R), \A x, y \in R : x.node = y.node => x = y
  PROVE  Cardinality({x.node : x \in R}) = Cardinality(R)
<1> DEFINE T == {x.node : x \in R}
           f == [x \in R |-> x.node]
<1>1. f \in [R -> T] /\ (\A n \in T : \E x \in R : f[x] = n)
      /\ (\A x, y \in R : f[x] = f[y] => x = y)
  OBVIOUS
<1>2. f \in Surjection(R, T) /\ f \in Injection(R, T)
  BY <1>1 DEF Surjection, Injection, IsInjective
<1>3. QED
  BY <1>2, FS_Surjection

\* The totals are those of the outcomes, one for each wanted node.
LEMMA CloseView ==
  ASSUME TypeOK, Inductive, Inductive', Stamped, NEW r \in Run, CloseResult(r)
  PROVE  Shown
<1>1. /\ run[r].pc = "node" /\ run[r] \in RunState /\ StampInv(r)
      /\ run' = [run EXCEPT ![r].pc = "done"] /\ UNCHANGED <<result, stamp, rows>>
      /\ count' = IF r \in result THEN [count EXCEPT ![r] = Totals(r)] ELSE count
  BY DEF CloseResult, TypeOK, Stamped
<1>2. Keeps(r) /\ run'[r].pc = "done" /\ run'[r].sel = run[r].sel
  BY <1>1, MoveFields DEF Keeps
<1>3. \A q \in Run : RowsOf({q})' = RowsOf({q})
  BY <1>1 DEF RowsOf
<1>4. \A q \in Run \ {r} : SameView(q) /\ StampInv(q)'
  <2>1. \A q \in Run \ {r} : count'[q] = count[q]
    BY <1>1 DEF TypeOK
  <2>2. QED
    BY <1>1, <1>2, <1>3, <2>1, OthersStay DEF Keeps
<1>5. /\ WantedOf(r)' = WantedOf(r) /\ GoodOf(r)' = GoodOf(r) /\ BadOf(r)' = BadOf(r)
  BY <1>1, <1>2, <1>3, SameRows DEF WantedOf
<1>6. StampInv(r)'
  BY <1>1, <1>2 DEF StampInv, Early
<1>7. CASE r \in result
  <2>1. PhaseOf(r) = "open" /\ PhaseOf(r)' = "closed"
    BY <1>1, <1>2, <1>7 DEF PhaseOf
  <2>2. TableInv(r)' /\ CountInv(r)' /\ r \in result'
    BY <1>1, <1>7 DEF Inductive
  <2>3. RowsOf({r}) = PassRows(r) \cup FailRows(r)
    BY DEF RowsOf, PassRows, FailRows
  <2>4. GoodOf(r) \cup BadOf(r) = Stored(r)
    BY <2>3 DEF GoodOf, BadOf, Stored
  <2>5. WantedOf(r) = GoodOf(r) \cup BadOf(r)
    <3>1. Stored(r)' = Stored(r)
      BY <1>3 DEF Stored
    <3>2. Stored(r)' = run'[r].sel
      BY <1>2, <2>2 DEF TableInv
    <3>3. QED
      BY <1>2, <1>7, <2>4, <3>1, <3>2 DEF WantedOf
  <2>6. PassRows(r)' = PassRows(r) /\ FailRows(r)' = FailRows(r)
    BY <1>1 DEF PassRows, FailRows
  <2>7. TotalOf(r)' = [pass |-> Cardinality(PassRows(r)), fail |-> Cardinality(FailRows(r))]
    <3>1. count'[r] = [pass |-> Cardinality(PassRows(r))', fail |-> Cardinality(FailRows(r))']
      BY <1>2, <2>2 DEF CountInv
    <3>2. QED
      BY <1>1, <1>7, <2>6, <3>1 DEF TotalOf
  <2>8. IsFiniteSet(RowsOf({r})) /\ (\A x, y \in RowsOf({r}) : x.node = y.node => x = y)
    BY DEF Inductive, CountInv, TableInv
  <2>9. IsFiniteSet(PassRows(r)) /\ IsFiniteSet(FailRows(r))
    BY <2>3, <2>8, FS_Subset
  <2>10. Cardinality(GoodOf(r)) = Cardinality(PassRows(r))
    BY <2>3, <2>8, <2>9, NodesOfRows DEF GoodOf
  <2>11. Cardinality(BadOf(r)) = Cardinality(FailRows(r))
    BY <2>3, <2>8, <2>9, NodesOfRows DEF BadOf
  <2>12. History!Next
    <3>1. \A q \in Run \ {r} : SameView(q)
      BY <1>4
    <3>2. QED
      BY <1>5, <2>1, <2>5, <2>7, <2>10, <2>11, <3>1, ViewCloses
  <2>13. QED
    BY <1>4, <1>6, <2>12 DEF Shown, Stamped
<1>8. CASE r \notin result
  <2>1. SameView(r)
    BY <1>1, <1>5, <1>8 DEF PhaseOf, SameView, TotalOf
  <2>2. \A q \in Run : SameView(q) /\ StampInv(q)'
    BY <1>4, <1>6, <2>1
  <2>3. QED
    BY <2>2, ViewStutters DEF Shown, Stamped
<1>9. QED
  BY <1>7, <1>8

LEMMA ExecutorView ==
  ASSUME TypeOK, Inductive, Inductive', Stamped, NEW r \in Run, Executor(r)
  PROVE  Shown
<1>0. run[r] \in RunState
  BY DEF TypeOK
<1>1. CASE ReadTask(r) \/ DropOrphanJob(r)
  <2>1. Early(r) /\ run'[r].pc \notin {"done", "lost"} /\ UNCHANGED tableVars
        /\ \A q \in Run \ {r} : run'[q] = run[q]
    BY <1>0, <1>1 DEF ReadTask, DropOrphanJob, Early, FreshRun, TypeOK, RunState
  <2>2. QED
    BY <2>1, TablesStay
<1>2. ASSUME NEW n \in Node, ScheduleOk(r, n) \/ ScheduleFailed(r, n) PROVE Shown
  <2>1. UNCHANGED tableVars /\ Working(r)
        /\ (Settle(r, n, TRUE) \/ Settle(r, n, FALSE) \/ Defer(r, n))
    BY <1>2 DEF ScheduleOk, ScheduleFailed, NextNode, Working
  <2>2. Keeps(r) /\ Working(r)'
    BY <2>1, SettleFields, DeferFields DEF Working
  <2>3. QED
    BY <2>1, <2>2, TablesStay DEF Keeps
<1>3. CASE CheckResult(r) \/ StartRetry(r)
  <2>1. UNCHANGED tableVars /\ Working(r) /\ Working(r)' /\ run'[r].sel = run[r].sel
        /\ \A q \in Run \ {r} : run'[q] = run[q]
    BY <1>0, <1>3 DEF CheckResult, StartRetry, Working, TypeOK, RunState
  <2>2. QED
    BY <2>1, TablesStay
<1>4. QED
  BY <1>1, <1>2, <1>3, CreateView, InsertView, CloseView DEF Executor

\* What a deletion commits is dropped whole: its rows go with its results.
LEMMA CommitView ==
  ASSUME TypeOK, Inductive, Stamped, NEW s \in Session, CommitDelete(s)
  PROVE  Shown
<1>1. CASE ~KeysHold(s)
  BY <1>1, TablesStay DEF CommitDelete
<1>2. CASE KeysHold(s)
  <2> DEFINE R == session[s].results \cap result
  <2>1. /\ result' = result \ session[s].results
        /\ rows' = rows \ session[s].rows
        /\ UNCHANGED <<run, count, stamp>>
    BY <1>2 DEF CommitDelete
  <2>2. \A x \in session[s].rows : x.run \in session[s].results
    BY DEF Inductive, SessionInv
  <2>3. ASSUME NEW q \in Run \ R PROVE SameView(q) /\ StampInv(q)'
    <3>1. (q \in result' <=> q \in result) /\ (Early(q)' <=> Early(q))
      BY <2>1 DEF Early
    <3>2. RowsOf({q})' = RowsOf({q})
      <4>1. CASE q \in session[s].results
        <5>1. RowsOf({q}) = {}
          BY <4>1 DEF Inductive, TableInv
        <5>2. QED
          BY <2>1, <5>1 DEF RowsOf
      <4>2. CASE q \notin session[s].results
        BY <2>1, <2>2, <4>2 DEF RowsOf
      <4>3. QED
        BY <4>1, <4>2
    <3>3. StampInv(q)
      BY DEF Stamped
    <3>4. QED
      BY <2>1, <3>1, <3>2, <3>3, GoesOn
  <2>4. ASSUME NEW q \in R
        PROVE  /\ PhaseOf(q) # "idle" /\ PhaseOf(q)' = "dropped"
               /\ WantedOf(q)' = {} /\ GoodOf(q)' = {}
               /\ BadOf(q)' = {} /\ TotalOf(q)' = NoCount
               /\ StampInv(q)'
    <3>1. q \in Run /\ q \in result /\ q \notin result' /\ stamp'[q] > 0
      BY <2>1 DEF Stamped, StampInv, TypeOK
    <3>2. PhaseOf(q) # "idle" /\ PhaseOf(q)' = "dropped"
      BY <3>1 DEF PhaseOf
    <3>3. RowsOf({q})' = {}
      BY <1>2, <2>1 DEF RowsOf, KeysHold
    <3>4. GoodOf(q)' = {} /\ BadOf(q)' = {}
      BY <3>3 DEF GoodOf, BadOf, PassRows, FailRows, RowsOf
    <3>5. StampInv(q)'
      BY <2>1, <3>1 DEF StampInv, Stamped, Early
    <3>6. QED
      BY <3>1, <3>2, <3>4, <3>5 DEF WantedOf, TotalOf
  <2>5. R \in SUBSET Run
    BY DEF TypeOK
  <2> HIDE DEF R
  <2>6. History!Next
    BY <2>3, <2>4, <2>5, ViewDrops
  <2>7. QED
    BY <2>3, <2>4, <2>6 DEF Shown, Stamped
<1>3. QED
  BY <1>1, <1>2

\* A crash cuts the open records short, together.
LEMMA CrashView ==
  ASSUME TypeOK, Inductive, Stamped, Crash
  PROVE  Shown
<1> DEFINE R == {r \in result : Working(r)}
<1>1. UNCHANGED tableVars /\ \A q \in Run : RowsOf({q})' = RowsOf({q})
  BY DEF Crash, RowsOf
<1>2. ASSUME NEW q \in Run
      PROVE  /\ Working(q) => run'[q].pc = "lost" /\ run'[q].sel = run[q].sel
             /\ Early(q) => run'[q].pc = "idle"
             /\ run[q].pc \in {"done", "lost"} => run'[q] = run[q]
  <2>1. run[q] \in RunState
    BY DEF TypeOK
  <2>2. QED
    BY <2>1 DEF Crash, Working, Early, FreshRun, RunState
<1>3. ASSUME NEW q \in Run
      PROVE  Working(q) \/ Early(q) \/ run[q].pc \in {"done", "lost"}
  <2>1. run[q] \in RunState
    BY DEF TypeOK
  <2>2. QED
    BY <2>1 DEF RunState, Working, Early
<1>4. ASSUME NEW q \in Run PROVE StampInv(q)'
  <2>1. StampInv(q) /\ (Early(q)' => Early(q))
    BY <1>2, <1>3 DEF Stamped, Early
  <2>2. QED
    BY <1>1, <2>1 DEF StampInv
<1>5. ASSUME NEW q \in Run \ R PROVE SameView(q)
  <2>1. StampInv(q) /\ (Early(q)' => Early(q))
    BY <1>2, <1>3 DEF Stamped, Early
  <2>2. q \in result => run'[q] = run[q]
    BY <1>2, <1>3, <2>1, EarlyHasNone
  <2>3. QED
    BY <1>1, <2>1, <2>2, GoesOn
<1>6. ASSUME NEW q \in R
      PROVE  /\ PhaseOf(q) = "open" /\ PhaseOf(q)' = "cut"
             /\ WantedOf(q)' = WantedOf(q) /\ GoodOf(q)' = GoodOf(q)
             /\ BadOf(q)' = BadOf(q) /\ TotalOf(q)' = TotalOf(q)
  <2>1. q \in Run /\ q \in result /\ Working(q) /\ q \in result'
    BY <1>1 DEF TypeOK
  <2>2. run'[q].pc = "lost" /\ run'[q].sel = run[q].sel
    BY <1>2, <2>1
  <2>3. PhaseOf(q) = "open" /\ PhaseOf(q)' = "cut"
    BY <2>1, <2>2 DEF PhaseOf, Working
  <2>4. GoodOf(q)' = GoodOf(q) /\ BadOf(q)' = BadOf(q)
    BY <1>1, <2>1, SameRows
  <2>5. QED
    BY <1>1, <2>1, <2>2, <2>3, <2>4 DEF WantedOf, TotalOf
<1>7. R \in SUBSET Run
  BY DEF TypeOK
<1> HIDE DEF R
<1>8. History!Next
  BY <1>5, <1>6, <1>7, ViewCuts
<1>9. QED
  BY <1>4, <1>8 DEF Shown, Stamped

\* Every step shows on the history page as a step of TaskHistory, or not at all.
LEMMA NextView ==
  ASSUME TypeOK, Inductive, Inductive', Stamped, [Next]_vars
  PROVE  Shown
<1>1. CASE Handler
  BY <1>1, TablesStay DEF Handler, InsertTask, StageUpdate, AddJob, ReplaceJob,
     RollbackUpdate, CommitUpdate, PauseJob, ResumeJob, RemoveJob, SetJob, ToggleScheduler
<1>2. ASSUME NEW s \in Session, Deletion(s) PROVE Shown
  <2>1. CASE CommitDelete(s)
    BY <2>1, CommitView
  <2>2. CASE ~CommitDelete(s)
    BY <1>2, <2>2, TablesStay DEF Deletion, BeginDeleteTask, LoadTask, LoadResult,
       LoadBeyondLimit, LoadTooOld
  <2>3. QED
    BY <2>1, <2>2
<1>3. ASSUME NEW t \in Task, Scheduler(t) PROVE Shown
  <2>1. ASSUME NEW r \in Run, Fire(t, r) PROVE Shown
    <3>1. Early(r) /\ run'[r].pc = "read" /\ UNCHANGED tableVars
          /\ \A q \in Run \ {r} : run'[q] = run[q]
      BY <2>1 DEF Fire, SlotFor, Early, FreshRun, TypeOK
    <3>2. QED
      BY <3>1, TablesStay
  <2>2. CASE SkipLastFiring(t)
    BY <2>2, TablesStay DEF SkipLastFiring
  <2>3. QED
    BY <1>3, <2>1, <2>2 DEF Scheduler
<1>4. CASE \E r \in Run : Executor(r)
  BY <1>4, ExecutorView
<1>5. CASE Environment
  <2>1. CASE Crash
    BY <2>1, CrashView
  <2>2. CASE ~Crash
    BY <1>5, <2>2, TablesStay DEF Environment, EditServers, Restart
  <2>3. QED
    BY <2>1, <2>2
<1>6. CASE UNCHANGED vars
  BY <1>6, TablesStay DEF vars
<1>7. QED
  BY <1>1, <1>2, <1>3, <1>4, <1>5, <1>6 DEF Next

LEMMA InitView == Init => Stamped /\ History!Init
<1> SUFFICES ASSUME Init PROVE Stamped /\ History!Init
  OBVIOUS
<1>1. result = {} /\ rows = {} /\ \A r \in Run : stamp[r] = 0
  BY DEF Init
<1>2. Stamped
  BY <1>1 DEF Stamped, StampInv
<1>3. \A r \in Run : /\ PhaseOf(r) = "idle" /\ WantedOf(r) = {}
                     /\ GoodOf(r) = {} /\ BadOf(r) = {} /\ TotalOf(r) = NoCount
  BY <1>1 DEF PhaseOf, WantedOf, GoodOf, BadOf, TotalOf, PassRows, FailRows
<1>4. QED
  BY <1>2, <1>3 DEF History!Init, History!Blank, NoCount

\* Whatever interleaves, the tables are a behaviour of TaskHistory: a record is
\* opened once, gets one outcome per wanted node, is closed only when it has them
\* all, with their totals, and otherwise is cut short or dropped whole.
THEOREM ImplementsHistoryCorrect == Spec => ImplementsHistory
<1>1. Init => Stamped /\ History!Init
  BY InitView
<1>2. TypeOK /\ Inductive /\ Inductive' /\ Stamped /\ [Next]_vars
        => Stamped' /\ [History!Next]_(History!vars)
  BY NextView DEF Shown
<1>3. Spec => History!Init /\ [][History!Next]_(History!vars)
  BY <1>1, <1>2, InductiveCorrect, PTL DEF Spec
<1>4. QED
  BY <1>3 DEF ImplementsHistory, History!Spec
=============================================================================
