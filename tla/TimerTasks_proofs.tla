------------------------- MODULE TimerTasks_proofs -------------------------
(* Theorems about TimerTasks, for every set of tasks, nodes and sessions and *)
(* every finite set of firings.                                              *)
EXTENDS TimerTasks, FiniteSetTheorems, TLAPS

-----------------------------------------------------------------------------
(* Type correctness.  The records are kept opaque: a step that changes one   *)
(* shows that the new record is well typed, and the rest follows.            *)

LEMMA FreshRunType == FreshRun \in RunState
  BY NumbersAssumption DEF FreshRun, RunState

LEMMA SessionTypes ==
    /\ FreeSession \in SessionState
    /\ [FreeSession EXCEPT !.op = "age"] \in SessionState
    /\ \A t \in Task :
         [FreeSession EXCEPT !.op = "task", !.tasks = {t}] \in SessionState
    /\ \A o \in {"commit", "limit", "days"}, T \in SUBSET Task, R \in SUBSET Run,
          X \in SUBSET Row :
         [op |-> o, tasks |-> T, results |-> R, rows |-> X] \in SessionState
  BY DEF FreeSession, SessionState

LEMMA InitTypeOK == Init => TypeOK
<1> SUFFICES ASSUME Init PROVE TypeOK
  OBVIOUS
<1>1. servers \in 0..MaxNode
  BY ChoicesAssumption DEF Init
<1>2. run \in [Run -> RunState] /\ session \in [Session -> SessionState]
  BY FreshRunType, SessionTypes DEF Init
<1>3. count \in [Run -> [pass: Nat, fail: Nat]]
  BY DEF Init, NoCount
<1>4. QED
  BY <1>1, <1>2, <1>3 DEF Init, TypeOK

LEMMA HandlerTypeOK == TypeOK /\ Handler => TypeOK'
<1> SUFFICES ASSUME TypeOK, Handler PROVE TypeOK'
  OBVIOUS
<1> USE DEF TypeOK, processVars, taskVars, tableVars
<1>1. ASSUME NEW t \in Task, NEW S \in Selections, InsertTask(t, S) PROVE TypeOK'
  BY <1>1, ChoicesAssumption DEF InsertTask, Node
<1>2. ASSUME NEW t \in Task, NEW S \in Selections, StageUpdate(t, S) PROVE TypeOK'
  BY <1>2, ChoicesAssumption DEF StageUpdate, Node
<1>3. ASSUME NEW t \in Task, AddJob(t) PROVE TypeOK'
  BY <1>3 DEF AddJob
<1>4. ASSUME NEW t \in Task, ReplaceJob(t) \/ RollbackUpdate(t) \/ CommitUpdate(t)
      PROVE  TypeOK'
  <2>1. CASE ReplaceJob(t)
    BY <2>1 DEF ReplaceJob
  <2>2. CASE RollbackUpdate(t)
    BY <2>2 DEF RollbackUpdate
  <2>3. CASE CommitUpdate(t)
    BY <2>3 DEF CommitUpdate
  <2>4. QED
    BY <1>4, <2>1, <2>2, <2>3
<1>5. ASSUME NEW t \in Task, PauseJob(t) \/ ResumeJob(t) \/ RemoveJob(t) PROVE TypeOK'
  BY <1>5 DEF PauseJob, ResumeJob, RemoveJob, SetJob
<1>6. CASE ToggleScheduler
  BY <1>6 DEF ToggleScheduler
<1>7. QED
  BY <1>1, <1>2, <1>3, <1>4, <1>5, <1>6 DEF Handler

LEMMA DeletionTypeOK == ASSUME NEW s \in Session, TypeOK, Deletion(s) PROVE TypeOK'
<1> USE DEF processVars, taskVars, tableVars
<1>1. ASSUME NEW t \in Task, BeginDeleteTask(s, t) PROVE TypeOK'
  BY <1>1, SessionTypes DEF BeginDeleteTask, TypeOK
<1>2. CASE LoadTask(s)
  <2>1. PICK t \in session[s].tasks :
          session' = [session EXCEPT ![s] =
             IF task[t] = "live"
             THEN [op |-> "commit", tasks |-> {t}, results |-> ResultsOf(t),
                   rows |-> RowsOf(ResultsOf(t))]
             ELSE FreeSession]
    BY <1>2 DEF LoadTask
  <2>2. session[s] \in SessionState
    BY DEF TypeOK
  <2>3. t \in Task
    BY <2>2 DEF SessionState
  <2>4. ResultsOf(t) \in SUBSET Run /\ RowsOf(ResultsOf(t)) \in SUBSET Row
    BY DEF ResultsOf, RowsOf, TypeOK
  <2>5. [op |-> "commit", tasks |-> {t}, results |-> ResultsOf(t),
         rows |-> RowsOf(ResultsOf(t))] \in SessionState
    BY <2>3, <2>4, SessionTypes
  <2>6. session' \in [Session -> SessionState]
    BY <2>1, <2>5, SessionTypes DEF TypeOK
  <2>7. QED
    BY <1>2, <2>6 DEF LoadTask, TypeOK
<1>3. ASSUME NEW r \in Run, LoadResult(s, r) PROVE TypeOK'
  <2>1. RowsOf({r}) \in SUBSET Row
    BY DEF RowsOf, TypeOK
  <2>2. [op |-> "commit", tasks |-> {}, results |-> {r}, rows |-> RowsOf({r})]
          \in SessionState
    BY <2>1, SessionTypes
  <2>3. QED
    BY <1>3, <2>2 DEF LoadResult, TypeOK
<1>4. CASE LoadBeyondLimit(s)
  <2>1. BeyondLimit \in SUBSET Run /\ RowsOf(BeyondLimit) \in SUBSET Row
    BY DEF BeyondLimit, RowsOf, TypeOK
  <2>2. [op |-> "limit", tasks |-> {}, results |-> BeyondLimit,
         rows |-> RowsOf(BeyondLimit)] \in SessionState
    BY <2>1, SessionTypes
  <2>3. QED
    BY <1>4, <2>2, SessionTypes DEF LoadBeyondLimit, TypeOK
<1>5. ASSUME NEW cutoff \in 0..Cardinality(Run), LoadTooOld(s, cutoff) PROVE TypeOK'
  <2>1. TooOld(cutoff) \in SUBSET Run /\ RowsOf(TooOld(cutoff)) \in SUBSET Row
    BY DEF TooOld, RowsOf, TypeOK
  <2>2. [op |-> "days", tasks |-> {}, results |-> TooOld(cutoff),
         rows |-> RowsOf(TooOld(cutoff))] \in SessionState
    BY <2>1, SessionTypes
  <2>3. QED
    BY <1>5, <2>2 DEF LoadTooOld, TypeOK
<1>6. CASE CommitDelete(s)
  <2>1. session' \in [Session -> SessionState]
    BY <1>6, SessionTypes DEF CommitDelete, TypeOK
  <2>2. QED
    BY <1>6, <2>1 DEF CommitDelete, TypeOK
<1>7. QED
  BY <1>1, <1>2, <1>3, <1>4, <1>5, <1>6 DEF Deletion

LEMMA SchedulerTypeOK == ASSUME NEW t \in Task, TypeOK, Scheduler(t) PROVE TypeOK'
<1> USE DEF processVars, taskVars, tableVars
<1>1. ASSUME NEW r \in Run, Fire(t, r) PROVE TypeOK'
  <2>1. [FreshRun EXCEPT !.pc = "read", !.task = t] \in RunState
    BY FreshRunType DEF RunState
  <2>2. QED
    BY <1>1, <2>1 DEF Fire, TypeOK
<1>2. CASE SkipLastFiring(t)
  BY <1>2 DEF SkipLastFiring, TypeOK
<1>3. QED
  BY <1>1, <1>2 DEF Scheduler

\* Replacing the record of one executor by a well-typed one keeps run typed.
LEMMA RunUpdate ==
  ASSUME TypeOK, NEW r \in Run, NEW new \in RunState, run' = [run EXCEPT ![r] = new]
  PROVE  run' \in [Run -> RunState]
  BY DEF TypeOK

LEMMA StampIsNat == Cardinality({q \in Run : stamp[q] > 0}) \in Nat
<1>1. IsFiniteSet({q \in Run : stamp[q] > 0})
  BY RunAssumption, FS_Subset
<1>2. QED
  BY <1>1, FS_CardinalityType

\* The record of an executor that has just counted node n.
LEMMA SettledRecord ==
  ASSUME NEW e \in RunState, e.pc = "node", NEW n \in Node, NEW isOk \in BOOLEAN,
         NEW p \in Nat, NEW f \in Nat
  PROVE  [e EXCEPT !.pc = "check", !.todo = e.todo \ {n}, !.node = n, !.ok = isOk,
                   !.pass = p, !.fail = f] \in RunState
<1>1. n \in 0..MaxNode
  BY NumbersAssumption DEF Node
<1>2. QED
  BY <1>1 DEF RunState

LEMMA SettleType ==
  ASSUME TypeOK, NEW r \in Run, NEW n \in Node, NEW isOk \in BOOLEAN,
         run[r].pc = "node", Settle(r, n, isOk)
  PROVE  run' \in [Run -> RunState]
<1> DEFINE p == IF isOk THEN run[r].pass + 1 ELSE run[r].pass
           f == IF isOk THEN run[r].fail ELSE run[r].fail + 1
           new == [run[r] EXCEPT !.pc = "check", !.todo = run[r].todo \ {n},
                                 !.node = n, !.ok = isOk, !.pass = p, !.fail = f]
<1>1. run[r] \in RunState
  BY DEF TypeOK
<1>2. p \in Nat /\ f \in Nat
  BY <1>1 DEF RunState
<1>3. run' = [run EXCEPT ![r] = new]
  BY DEF Settle, TypeOK
<1> HIDE DEF p, f
<1>4. new \in RunState
  BY <1>1, <1>2, SettledRecord
<1>5. QED
  BY <1>3, <1>4, RunUpdate

LEMMA DeferType ==
  ASSUME TypeOK, NEW r \in Run, NEW n \in Node, Defer(r, n)
  PROVE  run' \in [Run -> RunState]
<1> DEFINE new == [run[r] EXCEPT !.todo = run[r].todo \ {n},
                                 !.retry = run[r].retry \cup {n}]
<1>1. run[r] \in RunState
  BY DEF TypeOK
<1>2. new \in RunState
  BY <1>1 DEF RunState
<1>3. run' = [run EXCEPT ![r] = new]
  BY DEF Defer, TypeOK
<1>4. QED
  BY <1>2, <1>3, RunUpdate

LEMMA ExecutorTypeOK == ASSUME NEW r \in Run, TypeOK, Executor(r) PROVE TypeOK'
<1> USE DEF processVars, taskVars, tableVars
<1>0. run[r] \in RunState
  BY DEF TypeOK
<1>1. CASE ReadTask(r)
  <2>1. run[r].task \in Task
    BY <1>0, <1>1 DEF ReadTask, RunState
  <2>2. [run[r] EXCEPT !.pc = "create", !.sel = selected[run[r].task],
           !.srv = servers] \in RunState
    BY <1>0, <2>1 DEF RunState, TypeOK
  <2>3. [run[r] EXCEPT !.pc = "orphan"] \in RunState
    BY <1>0, <2>1 DEF RunState
  <2>4. run' \in [Run -> RunState]
    BY <1>1, <2>2, <2>3 DEF ReadTask, TypeOK
  <2>5. QED
    BY <1>1, <2>4 DEF ReadTask, TypeOK
<1>2. CASE DropOrphanJob(r)
  BY <1>2, FreshRunType DEF DropOrphanJob, TypeOK
<1>3. CASE CreateResult(r)
  <2>1. [run[r] EXCEPT !.pc = "node", !.todo = run[r].sel] \in RunState
    BY <1>0, <1>3 DEF RunState, CreateResult
  <2>2. run' \in [Run -> RunState]
    BY <1>3, <2>1, FreshRunType DEF CreateResult, TypeOK
  <2>3. stamp' \in [Run -> Nat]
    BY <1>3, StampIsNat DEF CreateResult, TypeOK
  <2>4. QED
    BY <1>3, <2>2, <2>3 DEF CreateResult, TypeOK
<1>4. ASSUME NEW n \in Node, ScheduleOk(r, n) PROVE TypeOK'
  <2>1. run' \in [Run -> RunState]
    BY <1>4, SettleType DEF ScheduleOk, NextNode
  <2>2. accepted' \in [Run -> [Node -> Nat]]
    BY <1>4 DEF ScheduleOk, TypeOK
  <2>3. QED
    BY <1>4, <2>1, <2>2 DEF ScheduleOk, TypeOK
<1>5. ASSUME NEW n \in Node, ScheduleFailed(r, n) PROVE TypeOK'
  <2>1. run' \in [Run -> RunState]
    BY <1>5, SettleType, DeferType DEF ScheduleFailed, NextNode
  <2>2. accepted' \in [Run -> [Node -> Nat]]
    <3>1. CASE UNCHANGED accepted
      BY <3>1 DEF TypeOK
    <3>2. CASE accepted' = [accepted EXCEPT ![r][n] = @ + 1]
      BY <3>2 DEF TypeOK
    <3>3. QED
      BY <1>5, <3>1, <3>2 DEF ScheduleFailed
  <2>3. QED
    BY <1>5, <2>1, <2>2 DEF ScheduleFailed, TypeOK
<1>6. CASE CheckResult(r)
  <2>1. [run[r] EXCEPT !.pc = IF r \in result THEN "insert" ELSE "node"] \in RunState
    BY <1>0, <1>6 DEF RunState, CheckResult
  <2>2. QED
    BY <1>6, <2>1 DEF CheckResult, TypeOK
<1>7. CASE InsertJobResult(r)
  <2>1. /\ [run[r] EXCEPT !.pc = "node"] \in RunState
        /\ [run[r] EXCEPT !.pc = "lost"] \in RunState
    BY <1>0, <1>7 DEF RunState, InsertJobResult
  <2>2. run' \in [Run -> RunState]
    BY <1>7, <2>1 DEF InsertJobResult, TypeOK
  <2>3. [run |-> r, node |-> run[r].node, ok |-> run[r].ok, round |-> run[r].round]
          \in Row
    BY <1>0, <1>7 DEF RunState, InsertJobResult, Row
  <2>4. rows' \subseteq Row
    BY <1>7, <2>3 DEF InsertJobResult, TypeOK
  <2>5. QED
    BY <1>7, <2>2, <2>4 DEF InsertJobResult, TypeOK
<1>8. CASE StartRetry(r)
  <2>1. [run[r] EXCEPT !.round = 2, !.todo = run[r].retry] \in RunState
    BY <1>0 DEF RunState
  <2>2. run' \in [Run -> RunState]
    BY <1>8, <2>1 DEF StartRetry, RetryDue, RetryNodes, TypeOK
  <2>3. QED
    BY <1>8, <2>2 DEF StartRetry, TypeOK
<1>9. CASE CloseResult(r)
  <2>1. [run[r] EXCEPT !.pc = "done"] \in RunState
    BY <1>0, <1>9 DEF RunState, CloseResult
  <2>2. [pass |-> run[r].pass, fail |-> run[r].fail] \in [pass: Nat, fail: Nat]
    BY <1>0 DEF RunState
  <2>3. QED
    BY <1>9, <2>1, <2>2 DEF CloseResult, Totals, TypeOK
<1>10. QED
  BY <1>1, <1>2, <1>3, <1>4, <1>5, <1>6, <1>7, <1>8, <1>9 DEF Executor

LEMMA EnvironmentTypeOK == TypeOK /\ Environment => TypeOK'
<1> SUFFICES ASSUME TypeOK, Environment PROVE TypeOK'
  OBVIOUS
<1> USE DEF processVars, taskVars, tableVars
<1>1. ASSUME NEW n \in ServerCounts, EditServers(n) PROVE TypeOK'
  BY <1>1, ChoicesAssumption DEF EditServers, TypeOK
<1>2. CASE Crash
  <2>1. ASSUME NEW r \in Run PROVE run'[r] \in RunState
    <3>1. run[r] \in RunState
      BY DEF TypeOK
    <3>2. run[r].pc # "idle" => [run[r] EXCEPT !.pc = "lost"] \in RunState
      BY <3>1 DEF RunState
    <3>3. QED
      BY <1>2, <3>1, <3>2, FreshRunType DEF Crash
  <2>2. run' \in [Run -> RunState]
    BY <1>2, <2>1 DEF Crash
  <2>3. session' \in [Session -> SessionState]
    BY <1>2, SessionTypes DEF Crash
  <2>4. QED
    BY <1>2, <2>2, <2>3 DEF Crash, TypeOK
<1>3. CASE Restart
  BY <1>3 DEF Restart, TypeOK
<1>4. QED
  BY <1>1, <1>2, <1>3 DEF Environment

LEMMA NextTypeOK == TypeOK /\ [Next]_vars => TypeOK'
<1> SUFFICES ASSUME TypeOK, [Next]_vars PROVE TypeOK'
  OBVIOUS
<1>1. CASE Next
  BY <1>1, HandlerTypeOK, DeletionTypeOK, SchedulerTypeOK, ExecutorTypeOK,
     EnvironmentTypeOK DEF Next
<1>2. CASE UNCHANGED vars
  BY <1>2 DEF vars, TypeOK
<1>3. QED
  BY <1>1, <1>2

\* Every reachable state is well typed, for any constants.
THEOREM TypeCorrect == Spec => []TypeOK
  BY InitTypeOK, NextTypeOK, PTL DEF Spec
=============================================================================
