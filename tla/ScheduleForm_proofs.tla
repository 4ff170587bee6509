------------------------ MODULE ScheduleForm_proofs ------------------------
(* Proofs about Deploys, as ScheduleForm extends it: the types of the deploys, *)
(* what a deploy answers and leaves behind, and what pruning keeps. The forms  *)
(* and their submits are in ScheduleForm_submits.                              *)
EXTENDS ScheduleForm, FiniteSetTheorems, SequenceTheorems, TLAPS

\* Anything but losses may be counted, and losses only grow.
CountsGrow == counts' \in [Counted -> Nat] /\ counts'["losses"] >= counts["losses"]

LEMMA OnceCounts ==
    ASSUME counts \in [Counted -> Nat], NEW thing \in Counted, Once(thing)
    PROVE  CountsGrow /\ counts'[thing] > 0
BY DEF Once, CountsGrow, Counted

LEMMA StillCounts ==
    ASSUME counts \in [Counted -> Nat], UNCHANGED counts
    PROVE  CountsGrow
BY DEF CountsGrow, Counted

LEMMA EggType ==
    ASSUME held \in Eggs, changes \in [Nodes -> [Versions -> Nat]],
           NEW n \in Nodes, NEW v \in Versions, NEW egg \in Egg \cup {None}, Put(n, v, egg)
    PROVE  /\ held' \in Eggs /\ changes' \in [Nodes -> [Versions -> Nat]]
           /\ held'[n][v] = egg /\ changes'[n][v] = changes[n][v] + 1
           /\ \A m \in Nodes, w \in Versions :
                  m # n \/ w # v => held'[m][w] = held[m][w] /\ changes'[m][w] = changes[m][w]
BY DEF Put, Eggs

LEMMA RemovedType ==
    ASSUME held \in Eggs, changes \in [Nodes -> [Versions -> Nat]],
           NEW n \in Nodes, NEW gone, Removed(n, gone)
    PROVE  /\ held' \in Eggs /\ changes' \in [Nodes -> [Versions -> Nat]]
           /\ \A m \in Nodes, w \in Versions :
                  \/ held'[m][w] = held[m][w] /\ changes'[m][w] = changes[m][w]
                  \/ held'[m][w] = None /\ changes'[m][w] = changes[m][w] + 1
BY DEF Removed, Eggs, Present

LEMMA MovedType ==
    ASSUME deploy \in [Requests -> Deploy], NEW r \in Requests, NEW n \in Nodes,
           NEW step \in Steps, Moved(r, n, step)
    PROVE  /\ deploy' \in [Requests -> Deploy]
           /\ deploy'[r].step[n] = step
           /\ \A m \in Nodes \ {n} : deploy'[r].step[m] = deploy[r].step[m]
           /\ deploy'[r].pc = deploy[r].pc /\ deploy'[r].version = deploy[r].version
           /\ deploy'[r].good = deploy[r].good /\ deploy'[r].stamp = deploy[r].stamp
           /\ \A q \in Requests \ {r} : deploy'[q] = deploy[q]
BY DEF Moved, Deploy

LEMMA StampedType ==
    ASSUME deploy \in [Requests -> Deploy], changes \in [Nodes -> [Versions -> Nat]],
           NEW r \in Requests, NEW n \in Nodes, deploy[r].version \in Versions,
           NEW step \in Steps, MovedAndStamped(r, n, step)
    PROVE  /\ deploy' \in [Requests -> Deploy]
           /\ deploy'[r].step[n] = step
           /\ deploy'[r].stamp[n] = changes[n][deploy[r].version] + 1
           /\ \A m \in Nodes \ {n} : /\ deploy'[r].step[m] = deploy[r].step[m]
                                     /\ deploy'[r].stamp[m] = deploy[r].stamp[m]
           /\ deploy'[r].pc = deploy[r].pc /\ deploy'[r].version = deploy[r].version
           /\ deploy'[r].good = deploy[r].good
           /\ \A q \in Requests \ {r} : deploy'[q] = deploy[q]
<1> DEFINE d == [deploy[r] EXCEPT !.step = [@ EXCEPT ![n] = step],
                                  !.stamp = [@ EXCEPT ![n] = changes[n][deploy[r].version] + 1]]
<1>1. deploy[r] \in Deploy /\ changes[n][deploy[r].version] + 1 \in Nat
  OBVIOUS
<1>2. /\ d \in Deploy /\ d.step[n] = step
      /\ d.stamp[n] = changes[n][deploy[r].version] + 1
      /\ \A m \in Nodes \ {n} : d.step[m] = deploy[r].step[m] /\ d.stamp[m] = deploy[r].stamp[m]
      /\ d.pc = deploy[r].pc /\ d.version = deploy[r].version /\ d.good = deploy[r].good
  BY <1>1 DEF Deploy
<1>3. deploy' = [deploy EXCEPT ![r] = d]
  BY DEF MovedAndStamped, Version
<1> HIDE DEF d
<1> QED BY <1>2, <1>3
-----------------------------------------------------------------------------
(* The deploys: what holds between the steps of each.                         *)

Shape(r) ==
    LET d == deploy[r]
    IN  /\ d.pc # "idle" => d.version \in Versions
        /\ \A n \in Nodes : /\ d.step[n] \in {"adding", "stored", "bad"} => d.pc = "running"
                            /\ d.step[n] # "out" => d.pc # "idle"
                            /\ d.step[n] \in {"out", "adding"} => d.stamp[n] = 0

\* While nobody else has touched the version since the deploy did, the node holds what
\* the deploy left there.
Stands(r, n) ==
    LET d == deploy[r]
    IN  d.stamp[n] # 0 =>
            /\ d.version \in Versions /\ d.stamp[n] <= changes[n][d.version]
            /\ d.stamp[n] = changes[n][d.version] =>
                   /\ d.step[n] \in {"stored", "ok"} =>
                          held[n][d.version] = [by |-> r, good |-> d.good]
                   /\ d.step[n] = "ok" => d.good
                   /\ d.step[n] = "error" => held[n][d.version] = None

\* Some deploy has yet to look at an egg without spiders, or to delete it.
Watched(n, v) ==
    \/ held[n][v] = None \/ held[n][v].good
    \/ \E r \in Requests : deploy[r].version = v /\ deploy[r].step[n] \in {"stored", "bad"}

DeploysInv ==
    /\ DeploysTypeOK
    /\ prune.pc # "closed" => prune.node \in Nodes
    /\ \A r \in Requests : Shape(r) /\ \A n \in Nodes : Stands(r, n)
    /\ counts["losses"] = 0 => \A n \in Nodes, v \in Versions : Watched(n, v)

\* A version is left alone, or its change is counted.
EggsMove ==
    \A n \in Nodes, v \in Versions :
        \/ held'[n][v] = held[n][v] /\ changes'[n][v] = changes[n][v]
        \/ changes'[n][v] = changes[n][v] + 1

LEMMA StandsKept ==
    ASSUME DeploysTypeOK, EggsMove, NEW r \in Requests, NEW n \in Nodes, Stands(r, n),
           deploy'[r].version = deploy[r].version, deploy'[r].good = deploy[r].good,
           deploy'[r].stamp[n] = deploy[r].stamp[n], deploy'[r].step[n] = deploy[r].step[n]
    PROVE  Stands(r, n)'
<1> SUFFICES ASSUME deploy[r].stamp[n] # 0 PROVE Stands(r, n)'
  BY DEF Stands
<1>1. /\ deploy[r].version \in Versions /\ deploy[r].stamp[n] \in Nat
      /\ changes[n][deploy[r].version] \in Nat
  BY DEF DeploysTypeOK, Deploy, Stands
<1>2. CASE /\ held'[n][deploy[r].version] = held[n][deploy[r].version]
           /\ changes'[n][deploy[r].version] = changes[n][deploy[r].version]
  BY <1>2 DEF Stands
<1>3. CASE changes'[n][deploy[r].version] = changes[n][deploy[r].version] + 1
  BY <1>1, <1>3 DEF Stands
<1> QED BY <1>1, <1>2, <1>3 DEF EggsMove

\* The steps of the others, and of the form, leave the deploys as they are.
LEMMA DeploysKept ==
    ASSUME DeploysInv, deploy' = deploy, held' \in Eggs,
           changes' \in [Nodes -> [Versions -> Nat]], EggsMove,
           \A n \in Nodes, v \in Versions : held'[n][v] \in {held[n][v], None},
           prune' \in Prune, prune'.pc # "closed" => prune'.node \in Nodes,
           limits' = limits, CountsGrow
    PROVE  DeploysInv'
<1>1. DeploysTypeOK'
  BY DEF DeploysInv, DeploysTypeOK, CountsGrow
<1>2. ASSUME NEW r \in Requests, NEW n \in Nodes PROVE Stands(r, n)' /\ Shape(r)'
  BY <1>2, StandsKept DEF DeploysInv, Shape
<1>3. ASSUME NEW r \in Requests PROVE Shape(r)'
  BY <1>3 DEF DeploysInv, Shape
<1>4. ASSUME counts'["losses"] = 0, NEW n \in Nodes, NEW v \in Versions PROVE Watched(n, v)'
  <2>1. counts["losses"] = 0
    BY <1>4 DEF CountsGrow, DeploysInv, DeploysTypeOK, Counted
  <2> QED BY <2>1, <1>4 DEF DeploysInv, Watched
<1> QED BY <1>1, <1>2, <1>3, <1>4 DEF DeploysInv

LEMMA BeginKeeps ==
    ASSUME DeploysInv, NEW r \in Requests, NEW v \in Versions, NEW good \in BOOLEAN,
           NEW targets \in SUBSET Nodes, NEW record \in {None, "pending"},
           Begin(r, v, good, targets, record)
    PROVE  DeploysInv'
<1> DEFINE d == [NoDeploy EXCEPT !.pc = "running", !.version = v, !.good = good,
                     !.record = record,
                     !.step = [n \in Nodes |-> IF n \in targets THEN "adding" ELSE "out"]]
<1>1. /\ d \in Deploy /\ d.pc = "running" /\ d.version = v
      /\ \A n \in Nodes : d.step[n] \in {"adding", "out"} /\ d.stamp[n] = 0
  BY DEF Deploy, NoDeploy, Steps
<1>2. deploy' = [deploy EXCEPT ![r] = d]
  BY DEF Begin
<1> HIDE DEF d
<1>3. CountsGrow
  BY OnceCounts DEF Begin, DeploysInv, DeploysTypeOK, Counted
<1>4. deploy'[r] = d /\ \A q \in Requests \ {r} : deploy'[q] = deploy[q]
  BY <1>2 DEF DeploysInv, DeploysTypeOK
<1>5. DeploysTypeOK'
  BY <1>1, <1>2, <1>3 DEF DeploysInv, DeploysTypeOK, Begin, CountsGrow
<1>6. EggsMove /\ held' = held /\ changes' = changes /\ prune' = prune
  BY DEF Begin, EggsMove
<1>7. ASSUME NEW q \in Requests PROVE Shape(q)' /\ \A n \in Nodes : Stands(q, n)'
  <2>1. CASE q = r
    BY <1>1, <1>4, <2>1 DEF Shape, Stands
  <2>2. CASE q # r
    BY <1>4, <1>6, <2>2, StandsKept DEF DeploysInv, Shape
  <2> QED BY <2>1, <2>2
<1>8. ASSUME counts'["losses"] = 0, NEW n \in Nodes, NEW w \in Versions PROVE Watched(n, w)'
  <2>1. Watched(n, w)
    BY <1>3, <1>8 DEF CountsGrow, DeploysInv, DeploysTypeOK, Counted
  <2>2. ASSUME NEW q \in Requests, deploy[q].step[n] \in {"stored", "bad"} PROVE q # r
    BY <2>2 DEF DeploysInv, Shape, Begin
  <2> QED BY <1>4, <1>6, <2>1, <2>2 DEF Watched
<1> QED BY <1>5, <1>6, <1>7, <1>8 DEF DeploysInv

\* One deploy moves on one node.
OneStep(r, n) ==
    /\ deploy' \in [Requests -> Deploy]
    /\ \A m \in Nodes \ {n} : /\ deploy'[r].step[m] = deploy[r].step[m]
                              /\ deploy'[r].stamp[m] = deploy[r].stamp[m]
    /\ deploy'[r].pc = deploy[r].pc /\ deploy'[r].version = deploy[r].version
    /\ deploy'[r].good = deploy[r].good
    /\ \A q \in Requests \ {r} : deploy'[q] = deploy[q]

LEMMA StepKeeps ==
    ASSUME DeploysInv, NEW r \in Requests, NEW n \in Nodes,
           deploy[r].step[n] \in {"adding", "stored", "bad"}, OneStep(r, n),
           deploy'[r].step[n] \notin {"out", "adding"},
           held' \in Eggs, changes' \in [Nodes -> [Versions -> Nat]], EggsMove,
           prune' = prune, limits' = limits, CountsGrow, Stands(r, n)',
           counts'["losses"] = 0 =>
               /\ \A m \in Nodes, w \in Versions :
                      m # n \/ w # deploy[r].version => held'[m][w] = held[m][w]
               /\ \A w \in Versions : w = deploy[r].version => Watched(n, w)'
    PROVE  DeploysInv'
<1>1. DeploysTypeOK'
  BY DEF DeploysInv, DeploysTypeOK, OneStep, CountsGrow
<1>2. ASSUME NEW q \in Requests PROVE Shape(q)' /\ \A m \in Nodes : Stands(q, m)'
  <2>1. CASE q = r
    <3>1. \A m \in Nodes \ {n} : Stands(r, m)'
      BY StandsKept DEF DeploysInv, OneStep
    <3>2. Shape(r)'
      BY DEF DeploysInv, Shape, OneStep
    <3> QED BY <2>1, <3>1, <3>2
  <2>2. CASE q # r
    <3>1. deploy'[q] = deploy[q] /\ Shape(q) /\ DeploysTypeOK
      BY <2>2 DEF DeploysInv, OneStep
    <3>2. \A m \in Nodes : Stands(q, m)'
      BY <3>1, StandsKept DEF DeploysInv
    <3> QED BY <3>1, <3>2 DEF Shape
  <2> QED BY <2>1, <2>2
<1>3. ASSUME counts'["losses"] = 0, NEW m \in Nodes, NEW w \in Versions PROVE Watched(m, w)'
  <2>1. Watched(m, w)
    BY <1>3 DEF CountsGrow, DeploysInv, DeploysTypeOK, Counted
  <2>2. CASE m = n /\ w = deploy[r].version
    BY <1>3, <2>2
  <2>3. CASE m # n \/ w # deploy[r].version
    <3>1. held'[m][w] = held[m][w]
      BY <1>3, <2>3
    <3>2. ASSUME NEW q \in Requests, deploy[q].version = w, deploy[q].step[m] \in {"stored", "bad"}
          PROVE  deploy'[q].version = w /\ deploy'[q].step[m] \in {"stored", "bad"}
      BY <2>3, <3>2 DEF OneStep
    <3> QED BY <2>1, <3>1, <3>2 DEF Watched
  <2> QED BY <2>2, <2>3
<1> QED BY <1>1, <1>2, <1>3 DEF DeploysInv

LEMMA AddVersionKeeps ==
    ASSUME DeploysInv, NEW r \in Requests, NEW n \in Nodes, AddVersion(r, n)
    PROVE  DeploysInv'
<1>0. /\ deploy[r].step[n] = "adding" /\ deploy[r].version \in Versions
      /\ deploy[r].stamp[n] = 0 /\ deploy[r].good \in BOOLEAN
      /\ held \in Eggs /\ changes \in [Nodes -> [Versions -> Nat]]
      /\ deploy \in [Requests -> Deploy] /\ counts \in [Counted -> Nat]
      /\ prune' = prune /\ limits' = limits
  BY DEF AddVersion, DeploysInv, DeploysTypeOK, Shape, Deploy
<1> DEFINE v == deploy[r].version
           egg == [by |-> r, good |-> deploy[r].good]
<1>1. egg \in Egg \cup {None} /\ {"stored", "refused", "lost"} \subseteq Steps
  BY <1>0 DEF Egg, Steps
<1>2. ASSUME Put(n, v, egg)
      PROVE  /\ held' \in Eggs /\ changes' \in [Nodes -> [Versions -> Nat]] /\ EggsMove
             /\ held'[n][v] = egg /\ changes'[n][v] = changes[n][v] + 1
             /\ \A m \in Nodes, w \in Versions : m # n \/ w # v => held'[m][w] = held[m][w]
  BY <1>0, <1>1, <1>2, EggType DEF EggsMove
<1>3. CASE Put(n, v, egg) /\ MovedAndStamped(r, n, "stored") /\ UNCHANGED counts
  <2>1. /\ OneStep(r, n) /\ deploy'[r].step[n] = "stored"
        /\ deploy'[r].stamp[n] = changes[n][v] + 1
    BY <1>0, <1>1, <1>3, StampedType DEF OneStep
  <2>2. Stands(r, n)'
    BY <1>0, <1>2, <1>3, <2>1 DEF Stands, OneStep
  <2>3. ASSUME NEW w \in Versions, w = v PROVE Watched(n, w)'
    BY <2>1, <2>3 DEF Watched, OneStep
  <2> QED BY <1>0, <1>2, <1>3, <2>1, <2>2, <2>3, StillCounts, StepKeeps
<1>4. CASE Moved(r, n, "refused") /\ UNCHANGED <<held, changes, counts>>
  <2>1. /\ OneStep(r, n) /\ deploy'[r].step[n] = "refused" /\ deploy'[r].stamp[n] = 0
    BY <1>0, <1>1, <1>4, MovedType DEF OneStep
  <2>2. Stands(r, n)' /\ EggsMove
    BY <1>4, <2>1 DEF Stands, EggsMove
  <2>3. ASSUME counts'["losses"] = 0, NEW w \in Versions PROVE Watched(n, w)'
    <3>1. Watched(n, w)     \* by another deploy than r, if there is something to watch
      BY <1>4, <2>3 DEF DeploysInv
    <3> QED BY <1>0, <1>4, <2>1, <3>1 DEF Watched, OneStep
  <2> QED BY <1>0, <1>4, <2>1, <2>2, <2>3, StillCounts, StepKeeps
<1>5. CASE Once("losses") /\ Put(n, v, egg) /\ Moved(r, n, "lost")
  <2>1. /\ OneStep(r, n) /\ deploy'[r].step[n] = "lost" /\ deploy'[r].stamp[n] = 0
    BY <1>0, <1>1, <1>5, MovedType DEF OneStep
  <2>2. Stands(r, n)'
    BY <2>1 DEF Stands
  <2>3. CountsGrow /\ counts'["losses"] # 0
    BY <1>0, <1>5, OnceCounts DEF Counted
  <2> QED BY <1>0, <1>2, <1>5, <2>1, <2>2, <2>3, StepKeeps
<1> QED BY <1>3, <1>4, <1>5 DEF AddVersion, Version

LEMMA ListSpidersKeeps ==
    ASSUME DeploysInv, NEW r \in Requests, NEW n \in Nodes, ListSpiders(r, n)
    PROVE  DeploysInv'
<1>0. /\ deploy[r].step[n] = "stored" /\ deploy[r].version \in Versions
      /\ deploy[r].stamp[n] \in Nat /\ deploy[r].good \in BOOLEAN
      /\ held \in Eggs /\ changes \in [Nodes -> [Versions -> Nat]]
      /\ deploy \in [Requests -> Deploy] /\ counts \in [Counted -> Nat]
      /\ UNCHANGED <<held, changes, prune, limits>>
  BY DEF ListSpiders, DeploysInv, DeploysTypeOK, Shape, Deploy
<1> DEFINE v == deploy[r].version
<1>1. EggsMove /\ {"ok", "bad"} \subseteq Steps
  BY <1>0 DEF EggsMove, Steps
<1>2. CountsGrow
  <2>1. UNCHANGED counts \/ Once("losses")
    BY DEF ListSpiders
  <2> QED BY <1>0, <2>1, StillCounts, OnceCounts DEF Counted
<1>3. CASE Moved(r, n, "ok") /\ ListsSpiders(r, n)
  <2>1. /\ OneStep(r, n) /\ deploy'[r].step[n] = "ok"
        /\ deploy'[r].stamp[n] = deploy[r].stamp[n]
    BY <1>0, <1>1, <1>3, MovedType DEF OneStep
  <2>2. held[n][v] # None /\ held[n][v].good
    BY <1>3 DEF ListsSpiders, Version
  <2>3. Stands(r, n)'
    <3>1. Stands(r, n)
      BY DEF DeploysInv
    <3> QED BY <1>0, <2>1, <2>2, <3>1 DEF Stands, OneStep
  <2>4. ASSUME NEW w \in Versions, w = v PROVE Watched(n, w)'
    BY <1>0, <2>2, <2>4 DEF Watched
  <2> QED BY <1>0, <1>1, <1>2, <2>1, <2>3, <2>4, StepKeeps
<1>4. CASE Moved(r, n, "bad")
  <2>1. /\ OneStep(r, n) /\ deploy'[r].step[n] = "bad"
        /\ deploy'[r].stamp[n] = deploy[r].stamp[n]
    BY <1>0, <1>1, <1>4, MovedType DEF OneStep
  <2>2. Stands(r, n)'
    <3>1. Stands(r, n)
      BY DEF DeploysInv
    <3> QED BY <1>0, <2>1, <3>1 DEF Stands, OneStep
  <2>3. ASSUME NEW w \in Versions, w = v PROVE Watched(n, w)'
    BY <2>1, <2>3 DEF Watched, OneStep
  <2> QED BY <1>0, <1>1, <1>2, <2>1, <2>2, <2>3, StepKeeps
<1> QED BY <1>3, <1>4 DEF ListSpiders

LEMMA RollbackKeeps ==
    ASSUME DeploysInv, NEW r \in Requests, NEW n \in Nodes, Rollback(r, n)
    PROVE  DeploysInv'
<1>0. /\ deploy[r].step[n] = "bad" /\ deploy[r].version \in Versions
      /\ held \in Eggs /\ changes \in [Nodes -> [Versions -> Nat]]
      /\ deploy \in [Requests -> Deploy] /\ counts \in [Counted -> Nat]
      /\ UNCHANGED <<prune, limits>> /\ {"error", "lost"} \subseteq Steps
  BY DEF Rollback, DeploysInv, DeploysTypeOK, Shape, Steps
<1> DEFINE v == deploy[r].version
<1>1. CASE Put(n, v, None) /\ MovedAndStamped(r, n, "error") /\ UNCHANGED counts
  <2>1. /\ OneStep(r, n) /\ deploy'[r].step[n] = "error"
        /\ deploy'[r].stamp[n] = changes[n][v] + 1
    BY <1>0, <1>1, StampedType DEF OneStep
  <2>2. /\ held' \in Eggs /\ changes' \in [Nodes -> [Versions -> Nat]] /\ EggsMove
        /\ held'[n][v] = None /\ changes'[n][v] = changes[n][v] + 1
        /\ \A m \in Nodes, w \in Versions : m # n \/ w # v => held'[m][w] = held[m][w]
    BY <1>0, <1>1, EggType DEF EggsMove
  <2>3. Stands(r, n)'
    BY <1>0, <2>1, <2>2 DEF Stands, OneStep
  <2>4. ASSUME NEW w \in Versions, w = v PROVE Watched(n, w)'
    BY <2>2, <2>4 DEF Watched
  <2> QED BY <1>0, <1>1, <2>1, <2>2, <2>3, <2>4, StillCounts, StepKeeps
<1>2. CASE Once("losses") /\ Moved(r, n, "lost") /\ UNCHANGED <<held, changes>>
  <2>1. /\ OneStep(r, n) /\ deploy'[r].step[n] = "lost"
        /\ deploy'[r].stamp[n] = deploy[r].stamp[n]
    BY <1>0, <1>2, MovedType DEF OneStep
  <2>2. Stands(r, n)' /\ EggsMove
    <3>1. Stands(r, n)
      BY DEF DeploysInv
    <3> QED BY <1>0, <1>2, <2>1, <3>1 DEF Stands, OneStep, EggsMove
  <2>3. CountsGrow /\ counts'["losses"] # 0
    BY <1>0, <1>2, OnceCounts DEF Counted
  <2> QED BY <1>0, <1>2, <2>1, <2>2, <2>3, StepKeeps
<1> QED BY <1>1, <1>2 DEF Rollback, Version

LEMMA EndKeeps ==
    ASSUME DeploysInv, NEW r \in Requests, End(r)
    PROVE  DeploysInv'
<1> DEFINE d == [deploy[r] EXCEPT !.pc = "ended", !.record = Overall(r)]
<1>0. deploy \in [Requests -> Deploy] /\ counts \in [Counted -> Nat] /\ deploy[r] \in Deploy
  BY DEF DeploysInv, DeploysTypeOK
<1>1. deploy' = [deploy EXCEPT ![r] = d] /\ UNCHANGED <<held, changes, prune, limits, counts>>
  BY DEF End
<1>2. /\ d \in Deploy /\ d.pc = "ended" /\ d.version = deploy[r].version
      /\ d.good = deploy[r].good /\ d.stamp = deploy[r].stamp /\ d.step = deploy[r].step
  BY <1>0 DEF Deploy, Overall
<1> HIDE DEF d
<1>3. EggsMove /\ CountsGrow
  BY <1>0, <1>1, StillCounts DEF EggsMove
<1>4. deploy'[r] = d /\ \A q \in Requests \ {r} : deploy'[q] = deploy[q]
  BY <1>0, <1>1
<1>5. DeploysTypeOK'
  BY <1>1, <1>2 DEF DeploysInv, DeploysTypeOK
<1>6. ASSUME NEW q \in Requests PROVE Shape(q)' /\ \A n \in Nodes : Stands(q, n)'
  <2>1. \A n \in Nodes : Stands(q, n)'
    BY <1>2, <1>3, <1>4, StandsKept DEF DeploysInv
  <2>2. Shape(q)'
    <3>1. CASE q = r
      <4>1. /\ deploy[r].pc = "running" /\ Shape(r)
            /\ \A n \in Nodes : deploy[r].step[n] \notin {"adding", "stored", "bad"}
        BY DEF End, DeploysInv
      <4> QED BY <1>2, <1>4, <3>1, <4>1 DEF Shape
    <3>2. CASE q # r
      BY <1>4, <3>2 DEF DeploysInv, Shape
    <3> QED BY <3>1, <3>2
  <2> QED BY <2>1, <2>2
<1>7. ASSUME counts'["losses"] = 0, NEW n \in Nodes, NEW w \in Versions PROVE Watched(n, w)'
  <2>1. Watched(n, w)
    BY <1>1, <1>7 DEF DeploysInv
  <2> QED BY <1>1, <1>2, <1>4, <2>1 DEF Watched
<1> QED BY <1>1, <1>5, <1>6, <1>7 DEF DeploysInv

LEMMA PageKeeps ==
    ASSUME DeploysInv,
           \/ \E n \in Nodes : \/ \E gone : Delete(n, gone)
                               \/ ListVersions(n)
           \/ PruneOld \/ PruneNext
    PROVE  DeploysInv'
<1>0. /\ held \in Eggs /\ changes \in [Nodes -> [Versions -> Nat]] /\ prune \in Prune
      /\ counts \in [Counted -> Nat] /\ {"deletes", "lists", "losses"} \subseteq Counted
  BY DEF DeploysInv, DeploysTypeOK, Counted
<1> DEFINE Gone == /\ held' \in Eggs /\ changes' \in [Nodes -> [Versions -> Nat]] /\ EggsMove
                   /\ \A n \in Nodes, v \in Versions : held'[n][v] \in {held[n][v], None}
<1>1. ASSUME NEW n \in Nodes, NEW gone, Removed(n, gone) PROVE Gone
  BY <1>0, <1>1, RemovedType DEF EggsMove
<1>2. ASSUME UNCHANGED <<held, changes>> PROVE Gone
  BY <1>0, <1>2 DEF EggsMove
<1>3. ASSUME NEW n \in Nodes, NEW gone, Delete(n, gone) PROVE DeploysInv'
  <2>1. Gone /\ CountsGrow
    BY <1>0, <1>1, <1>3, OnceCounts DEF Delete
  <2>2. prune' = prune /\ deploy' = deploy /\ limits' = limits
    BY <1>3 DEF Delete
  <2>3. prune.pc # "closed" => prune.node \in Nodes
    BY DEF DeploysInv
  <2> QED BY <1>0, <2>1, <2>2, <2>3, DeploysKept
<1>4. ASSUME NEW n \in Nodes, ListVersions(n) PROVE DeploysInv'
  <2>1. prune' \in Prune /\ prune'.node \in Nodes
    BY <1>4 DEF ListVersions, Prune, Present
  <2> QED BY <1>0, <1>2, <1>4, <2>1, OnceCounts, DeploysKept DEF ListVersions
<1>5. CASE PruneOld
  <2>1. prune' \in Prune /\ prune'.node = prune.node /\ prune.node \in Nodes
    BY <1>0, <1>5 DEF PruneOld, Prune, OldOnes, DeploysInv
  <2> QED BY <1>0, <1>2, <1>5, <2>1, StillCounts, DeploysKept DEF PruneOld
<1>6. CASE PruneNext
  <2> DEFINE v == Min(prune.todo)
             on == [prune EXCEPT !.todo = @ \ {v}]
  <2>0. /\ prune.node \in Nodes /\ NoPrune \in Prune /\ NoPrune.pc = "closed"
        /\ on \in Prune /\ on.node = prune.node /\ limits' = limits /\ deploy' = deploy
    BY <1>0, <1>6 DEF Prune, NoPrune, PruneNext, DeploysInv
  <2>1. CASE prune' = NoPrune /\ UNCHANGED <<held, changes, counts>>
    BY <1>0, <1>2, <2>0, <2>1, StillCounts, DeploysKept
  <2>2. CASE Removed(prune.node, {v}) /\ prune' = on /\ UNCHANGED counts
    BY <1>0, <1>1, <2>0, <2>2, StillCounts, DeploysKept
  <2>3. CASE Once("losses") /\ prune' \in {on, NoPrune} /\ UNCHANGED <<held, changes>>
    BY <1>0, <1>2, <2>0, <2>3, OnceCounts, DeploysKept
  <2> QED BY <1>6, <2>1, <2>2, <2>3 DEF PruneNext
<1> QED BY <1>3, <1>4, <1>5, <1>6

LEMMA DeploysStep == DeploysInv /\ NextDeploys => DeploysInv'
<1> SUFFICES ASSUME DeploysInv, NextDeploys PROVE DeploysInv'
  OBVIOUS
<1>1. ASSUME NEW r \in Requests, NEW v \in Versions, NEW good \in BOOLEAN,
             NEW targets \in SUBSET Nodes,
             \/ DeployPicked(r, v, good, targets) \/ DeployGit(r, v, good, targets)
             \/ DeployProject(r, v, good, targets) \/ Webhook(r, v, good, targets)
      PROVE  DeploysInv'
  BY <1>1, BeginKeeps DEF DeployPicked, DeployGit, DeployProject, Webhook
<1>2. ASSUME NEW r \in Requests, NEW n \in Nodes,
             AddVersion(r, n) \/ ListSpiders(r, n) \/ Rollback(r, n)
      PROVE  DeploysInv'
  BY <1>2, AddVersionKeeps, ListSpidersKeeps, RollbackKeeps
<1> QED BY <1>1, <1>2, EndKeeps, PageKeeps DEF NextDeploys
-----------------------------------------------------------------------------
(* The form leaves the versions alone.                                        *)

LEMMA FormStays ==
    ASSUME counts \in [Counted -> Nat], NextForm
    PROVE  DeploysStay /\ CountsGrow
<1>0. /\ \A thing \in Counted : Once(thing) => CountsGrow
      /\ UNCHANGED counts => CountsGrow
      /\ {"submits", "edits", "reads", "losses", "deletes"} \subseteq Counted
  BY OnceCounts, StillCounts DEF Counted
<1>1. ASSUME NEW u, NEW f, Typed(u, f) PROVE DeploysStay /\ CountsGrow
  BY <1>0, <1>1 DEF Typed
<1>2. ASSUME NEW u, NEW n, NEW left, Schedule(u, n, left) PROVE DeploysStay /\ CountsGrow
  BY <1>0, <1>2 DEF Schedule
<1>3. ASSUME NEW u \in Users,
             \/ \E n \in Nodes :
                    \/ \E target \in Keys, mode \in Modes : OpenBlank(u, n, target, mode)
                    \/ \E id \in DOMAIN tasks : OpenTask(u, id, n)
             \/ Leave(u) \/ SaveTask(u) \/ RunTaken(u)
      PROVE  DeploysStay /\ CountsGrow
  BY <1>0, <1>3 DEF OpenBlank, OpenTask, Opened, Leave, SaveTask, RunTaken
<1>4. ASSUME NEW u \in Users,
             \/ \E n \in Nodes : PickNode(u, n) \/ FollowNode(u, n)
             \/ \E target \in Keys : SetTarget(u, target)
             \/ \E a \in Args : SetSettings(u, a) \/ SetArgs(u, a)
             \/ \E w \in Whens : SetWhen(u, w)
             \/ \E mode \in Modes : SetMode(u, mode)
      PROVE  DeploysStay /\ CountsGrow
  BY <1>1, <1>4 DEF PickNode, FollowNode, SetTarget, SetSettings, SetArgs, SetWhen, SetMode
<1>5. ASSUME NEW u \in Users, RunJob(u) \/ Xhr(u) PROVE DeploysStay /\ CountsGrow
  BY <1>2, <1>5 DEF RunJob, Xhr
<1>6. ASSUME NEW u \in Users, ReadTasks(u) \/ Check(u) \/ Record(u)
      PROVE  DeploysStay /\ CountsGrow
  BY <1>0, <1>6 DEF ReadTasks, Check, Record
<1>7. ASSUME NEW id, DeleteTask(id) PROVE DeploysStay /\ CountsGrow
  BY <1>0, <1>7 DEF DeleteTask
<1> QED BY <1>3, <1>4, <1>5, <1>6, <1>7 DEF NextForm

LEMMA DeploysInitially == Init => DeploysInv
<1> SUFFICES ASSUME Init PROVE DeploysInv
  OBVIOUS
<1>1. PICK early \in Early :
          held = [n \in Nodes |-> [v \in Versions |->
                      IF v \in early THEN [by |-> None, good |-> TRUE] ELSE None]]
  BY DEF Init, InitDeploys
<1>2. held \in Eggs /\ \A n \in Nodes, v \in Versions : held[n][v] = None \/ held[n][v].good
  BY <1>1 DEF Eggs, Egg
<1>3. NoDeploy \in Deploy /\ NoPrune \in Prune
  BY DEF NoDeploy, NoPrune, Deploy, Prune, Steps
<1>4. DeploysTypeOK
  BY <1>2, <1>3 DEF Init, InitDeploys, DeploysTypeOK
<1>5. prune.pc = "closed"
  BY DEF Init, InitDeploys, NoPrune
<1>6. ASSUME NEW r \in Requests PROVE Shape(r) /\ \A n \in Nodes : Stands(r, n)
  <2>1. deploy[r] = NoDeploy
    BY DEF Init, InitDeploys
  <2> QED BY <2>1 DEF NoDeploy, Shape, Stands
<1> QED BY <1>2, <1>4, <1>5, <1>6 DEF DeploysInv, Watched

LEMMA DeploysAlways == Spec => []DeploysInv
<1>1. DeploysInv /\ [Next]_vars => DeploysInv'
  <2> SUFFICES ASSUME DeploysInv, [Next]_vars PROVE DeploysInv'
    OBVIOUS
  <2>1. ASSUME DeploysStay, CountsGrow PROVE DeploysInv'
    <3>1. /\ held \in Eggs /\ changes \in [Nodes -> [Versions -> Nat]] /\ prune \in Prune
          /\ prune.pc # "closed" => prune.node \in Nodes
      BY DEF DeploysInv, DeploysTypeOK
    <3>2. UNCHANGED <<held, changes, deploy, prune, limits>>
      BY <2>1 DEF DeploysStay, deployVars
    <3> QED BY <2>1, <3>1, <3>2, DeploysKept DEF EggsMove
  <2>2. counts \in [Counted -> Nat]
    BY DEF DeploysInv, DeploysTypeOK
  <2>3. CASE NextForm
    BY <2>1, <2>2, <2>3, FormStays
  <2>4. CASE UNCHANGED vars
    BY <2>1, <2>2, <2>4, StillCounts DEF vars, DeploysStay
  <2> QED BY <2>3, <2>4, DeploysStep DEF Next
<1> QED BY <1>1, DeploysInitially, PTL DEF Spec

\* ResultsTell for any number of deploys, nodes and versions, under any deletions.
THEOREM ResultsTellCorrect == Spec => []ResultsTell
<1>1. DeploysInv => ResultsTell
  <2> SUFFICES ASSUME DeploysInv, NEW r \in Requests, NEW n \in Nodes,
                      deploy[r].stamp[n] # 0, deploy[r].stamp[n] = changes[n][Version(r)]
               PROVE  /\ deploy[r].step[n] = "ok" =>
                             held[n][Version(r)] = [by |-> r, good |-> TRUE]
                      /\ deploy[r].step[n] = "error" => held[n][Version(r)] = None
    BY DEF ResultsTell
  <2>1. Stands(r, n) /\ deploy[r].good \in BOOLEAN
    BY DEF DeploysInv, DeploysTypeOK, Deploy
  <2> QED BY <2>1 DEF Stands, Version
<1> QED BY <1>1, DeploysAlways, PTL

\* NoBrokenLeft for any number of deploys, nodes and versions.
THEOREM NoBrokenLeftCorrect == Spec => []NoBrokenLeft
<1>1. DeploysInv => NoBrokenLeft
  <2> SUFFICES ASSUME DeploysInv, Resting, counts["losses"] = 0, NEW n \in Nodes,
                      NEW v \in Present(n)
               PROVE  held[n][v].good
    BY DEF NoBrokenLeft
  <2>1. v \in Versions /\ held[n][v] # None /\ Watched(n, v)
    BY DEF Present, DeploysInv
  <2>2. ASSUME NEW r \in Requests, deploy[r].step[n] \in {"stored", "bad"} PROVE FALSE
    BY <2>2 DEF DeploysInv, Shape, Resting
  <2> QED BY <2>1, <2>2 DEF Watched
<1> QED BY <1>1, DeploysAlways, PTL
-----------------------------------------------------------------------------
(* Sorted lists of numbers.                                                   *)

\* The place of a number in a set.
Rank(S, n) == Cardinality({m \in S : m <= n})

LEMMA RankGrows ==
    ASSUME NEW S \in SUBSET Nat, IsFiniteSet(S), NEW n \in S
    PROVE  /\ Rank(S, n) \in 1..Cardinality(S)
           /\ \A m \in S : m < n => Rank(S, m) < Rank(S, n)
<1> DEFINE Upto(k) == {m \in S : m <= k}
<1>1. ASSUME NEW k \in S
      PROVE  IsFiniteSet(Upto(k)) /\ Cardinality(Upto(k)) \in 0..Cardinality(S)
  BY FS_Subset, FS_CardinalityType
<1>2. Cardinality(Upto(n)) # 0
  BY <1>1, FS_EmptySet, n \in Upto(n)
<1>3. ASSUME NEW m \in S, m < n PROVE Cardinality(Upto(m)) < Cardinality(Upto(n))
  <2>1. m \in Nat /\ n \in Nat
    OBVIOUS
  <2>2. Upto(m) \subseteq Upto(n)
    <3>1. ASSUME NEW x \in S, x <= m PROVE x <= n
      <4>1. x \in Nat
        OBVIOUS
      <4> QED BY <1>3, <2>1, <3>1, <4>1
    <3> QED BY <3>1
  <2>3. n \in Upto(n) /\ n \notin Upto(m)
    BY <1>3, <2>1
  <2>4. Cardinality(Upto(m)) <= Cardinality(Upto(n)) /\ Cardinality(Upto(m)) # Cardinality(Upto(n))
    BY <1>1, <2>2, <2>3, FS_Subset
  <2> QED BY <1>1, <2>4
<1> QED BY <1>1, <1>2, <1>3 DEF Rank

LEMMA AscendingInjective ==
    ASSUME NEW k \in Nat, NEW S \in SUBSET Nat, NEW s \in [1..k -> S], Ascending(s)
    PROVE  s \in Injection(1..k, S) /\ IsInjective(s)
<1>1. ASSUME NEW i \in 1..k, NEW j \in 1..k, s[i] = s[j] PROVE i = j
  <2>1. s[i] \in S
    OBVIOUS
  <2>2. s[i] \in Nat
    BY <2>1
  <2>3. ~(s[i] < s[i])
    BY <2>2
  <2>4. ~(s[i] < s[j]) /\ ~(s[j] < s[i])
    BY ONLY <1>1, <2>3
  <2> QED BY <2>4 DEF Ascending
<1> QED BY <1>1 DEF Injection, IsInjective

\* A finite set has an ascending list of it.
LEMMA SortedSorts ==
    ASSUME NEW S \in SUBSET Nat, IsFiniteSet(S)
    PROVE  /\ Sorted(S) \in [1..Cardinality(S) -> S] /\ Ascending(Sorted(S))
           /\ Range(Sorted(S)) = S
<1> DEFINE c == Cardinality(S)
           f == [n \in S |-> Rank(S, n)]
           s == [i \in 1..c |-> CHOOSE n \in S : f[n] = i]
<1>0. c \in Nat /\ IsFiniteSet(1..c) /\ Cardinality(1..c) = c
  BY FS_CardinalityType, FS_Interval
<1>1. f \in [S -> 1..c] /\ \A m, n \in S : m < n => f[m] < f[n]
  BY RankGrows
<1>2. \A m, n \in S : f[m] = f[n] => m = n
  <2> SUFFICES ASSUME NEW m \in S, NEW n \in S, f[m] = f[n], m # n PROVE FALSE
    OBVIOUS
  <2>1. m < n \/ n < m
    OBVIOUS
  <2>2. f[m] \in Nat /\ f[n] \in Nat
    BY <1>0, <1>1
  <2> QED BY <1>1, <2>1, <2>2
<1> HIDE DEF f
<1>3. f \in Injection(S, 1..c)
  BY <1>1, <1>2 DEF Injection, IsInjective
<1>4. f \in Surjection(S, 1..c)
  BY <1>0, <1>3, FS_Injection
<1>5. \A i \in 1..c : \E n \in S : f[n] = i
  BY <1>4 DEF Surjection
<1>6. s \in [1..c -> S] /\ \A i \in 1..c : f[s[i]] = i
  BY <1>5
<1>7. Ascending(s)
  <2> SUFFICES ASSUME NEW i \in 1..c, NEW k \in 1..c, i < k, ~(s[i] < s[k]) PROVE FALSE
    BY <1>6 DEF Ascending
  <2> HIDE DEF s
  <2>1. s[i] \in Nat /\ s[k] \in Nat /\ s[i] \in S /\ s[k] \in S
    BY <1>6
  <2>2. s[k] < s[i] \/ s[k] = s[i]
    BY <2>1
  <2>3. f[s[k]] = k /\ f[s[i]] = i
    BY <1>6
  <2> QED BY <1>0, <1>1, <2>1, <2>2, <2>3
<1> HIDE DEF s
<1>8. Sorted(S) \in [1..c -> S] /\ Ascending(Sorted(S))
  BY <1>6, <1>7 DEF Sorted
<1>9. Sorted(S) \in Surjection(1..c, S)
  BY <1>0, <1>8, AscendingInjective, FS_Injection
<1> QED BY <1>8, <1>9 DEF Surjection, Range

LEMMA RankOf ==
    ASSUME NEW k \in Nat, NEW S \in SUBSET Nat, NEW s \in [1..k -> S], Ascending(s),
           Range(s) = S, NEW i \in 1..k
    PROVE  Rank(S, s[i]) = i
<1> DEFINE T == {m \in S : m <= s[i]}
           g == [j \in 1..i |-> s[j]]
<1>1. \A j \in 1..k : s[j] <= s[i] <=> j <= i
  <2> SUFFICES ASSUME NEW j \in 1..k PROVE s[j] <= s[i] <=> j <= i
    OBVIOUS
  <2>1. s[j] \in Nat /\ s[i] \in Nat
    OBVIOUS
  <2>2. j < i => s[j] < s[i]
    BY DEF Ascending
  <2>3. i < j => s[i] < s[j]
    BY DEF Ascending
  <2> QED BY <2>1, <2>2, <2>3
<1>2. g \in [1..i -> T] /\ Ascending(g)
  BY <1>1 DEF Ascending
<1>3. \A m \in T : \E j \in 1..i : g[j] = m
  <2> SUFFICES ASSUME NEW m \in T PROVE \E j \in 1..i : g[j] = m
    OBVIOUS
  <2>1. PICK j \in 1..k : s[j] = m
    BY DEF Range
  <2>2. j \in 1..i
    BY <1>1, <2>1
  <2> QED BY <2>1, <2>2
<1> HIDE DEF g
<1>4. g \in Surjection(1..i, T) /\ g \in Injection(1..i, T)
  BY <1>2, <1>3, AscendingInjective DEF Surjection
<1>5. Cardinality(T) = i
  BY <1>4, FS_Surjection, FS_Interval
<1> QED BY <1>5 DEF Rank

\* There is one such list, so that sorting a list that ascends changes nothing.
LEMMA SortedUnique ==
    ASSUME NEW s \in Seq(Nat), Ascending(s)
    PROVE  Sorted(Range(s)) = s
<1> DEFINE k == Len(s)
           S == Range(s)
           t == Sorted(S)
<1>1. k \in Nat /\ s \in [1..k -> S] /\ S \in SUBSET Nat /\ \A m \in S : \E i \in 1..k : s[i] = m
  BY DEF Range
<1> HIDE DEF S, k
<1>2. s \in Surjection(1..k, S) /\ s \in Injection(1..k, S)
  BY <1>1, AscendingInjective DEF Surjection
<1>3. IsFiniteSet(S) /\ Cardinality(S) = k
  BY <1>1, <1>2, FS_Surjection, FS_Interval
<1>4. t \in [1..k -> S] /\ Ascending(t) /\ Range(t) = S
  BY <1>1, <1>3, SortedSorts
<1> HIDE DEF t
<1>5. Range(s) = S
  BY DEF S
<1>6. ASSUME NEW i \in 1..k PROVE s[i] = t[i]
  <2>1. Rank(S, s[i]) = i /\ Rank(S, t[i]) = i
    BY <1>1, <1>4, <1>5, RankOf
  <2>2. s[i] \in S /\ t[i] \in S /\ s[i] \in Nat /\ t[i] \in Nat
    BY <1>1, <1>4
  <2>3. ~(s[i] < t[i]) /\ ~(t[i] < s[i])
    BY <1>1, <1>3, <2>1, <2>2, RankGrows
  <2> QED BY <2>2, <2>3
<1>7. s = t
  BY <1>1, <1>4, <1>6
<1> QED BY <1>7 DEF t, S

\* The smallest node is the first one of a list that ascends.
LEMMA AscendingMin ==
    ASSUME NEW s \in Seq(Nat), s # << >>, Ascending(s)
    PROVE  Min(Range(s)) = s[1]
<1>1. Len(s) \in Nat /\ Len(s) >= 1 /\ s \in [1..Len(s) -> Nat]
  OBVIOUS
<1>2. s[1] \in Range(s) /\ \A m \in Range(s) : s[1] <= m /\ m \in Nat
  BY <1>1 DEF Range, Ascending
<1>3. \A m \in Range(s) : (\A n \in Range(s) : m <= n) => m = s[1]
  BY <1>2
<1> QED BY <1>2, <1>3 DEF Min

\* Max and Min are what their names say.
LEMMA EndsOf ==
    ASSUME NEW S \in SUBSET Nat, IsFiniteSet(S), S # {}
    PROVE  /\ Max(S) \in S /\ \A x \in S : x <= Max(S)
           /\ Min(S) \in S /\ \A x \in S : Min(S) <= x
<1> DEFINE c == Cardinality(S)
           s == Sorted(S)
<1>1. c \in Nat /\ c # 0
  BY FS_CardinalityType, FS_EmptySet
<1>2. s \in [1..c -> S] /\ Ascending(s) /\ \A x \in S : \E i \in 1..c : s[i] = x
  <2>1. s \in [1..c -> S] /\ Ascending(s) /\ Range(s) = S
    BY SortedSorts
  <2> HIDE DEF s, c
  <2> QED BY <2>1 DEF Range
<1> HIDE DEF s, c
<1>3. ASSUME NEW i \in 1..c PROVE s[1] <= s[i] /\ s[i] <= s[c] /\ s[i] \in Nat
  <2>1. 1 \in 1..c /\ c \in 1..c /\ (i = 1 \/ 1 < i) /\ (i = c \/ i < c)
    BY <1>1
  <2>2. s[1] \in Nat /\ s[i] \in Nat /\ s[c] \in Nat
    BY <1>2, <2>1
  <2>3. (1 < i => s[1] < s[i]) /\ (i < c => s[i] < s[c])
    BY <1>2, <2>1 DEF Ascending
  <2> QED BY <2>1, <2>2, <2>3
<1>4. /\ s[c] \in S /\ \A x \in S : s[c] >= x
      /\ s[1] \in S /\ \A x \in S : s[1] <= x
  <2>1. s[1] \in S /\ s[c] \in S
    BY <1>1, <1>2
  <2>2. ASSUME NEW x \in S PROVE s[c] >= x /\ s[1] <= x
    <3>1. PICK i \in 1..c : s[i] = x
      BY <1>2
    <3>2. s[c] \in Nat
      BY <1>1, <1>3
    <3> QED BY <1>3, <3>1, <3>2
  <2> QED BY <2>1, <2>2
<1>5. /\ Max(S) \in S /\ \A x \in S : Max(S) >= x
      /\ Min(S) \in S /\ \A x \in S : Min(S) <= x
  BY <1>4 DEF Max, Min
<1> QED BY <1>5
-----------------------------------------------------------------------------
(* The versions on the nodes, and pruning.                                    *)

LEMMA EggsStep == DeploysInv /\ NextDeploys => EggsMove
<1> SUFFICES ASSUME DeploysInv, NextDeploys PROVE EggsMove
  OBVIOUS
<1>0. held \in Eggs /\ changes \in [Nodes -> [Versions -> Nat]]
  BY DEF DeploysInv, DeploysTypeOK
<1>1. ASSUME UNCHANGED <<held, changes>> PROVE EggsMove
  BY <1>1 DEF EggsMove
<1>2. ASSUME NEW r \in Requests, NEW v \in Versions, NEW good \in BOOLEAN,
             NEW targets \in SUBSET Nodes,
             \/ DeployPicked(r, v, good, targets) \/ DeployGit(r, v, good, targets)
             \/ DeployProject(r, v, good, targets) \/ Webhook(r, v, good, targets)
      PROVE  EggsMove
  BY <1>1, <1>2 DEF DeployPicked, DeployGit, DeployProject, Webhook, Begin
<1>3. ASSUME NEW n \in Nodes, NEW v \in Versions, NEW egg \in Egg \cup {None}, Put(n, v, egg)
      PROVE  EggsMove
  BY <1>0, <1>3, EggType DEF EggsMove
<1>4. ASSUME NEW r \in Requests, NEW n \in Nodes, AddVersion(r, n) PROVE EggsMove
  <2>1. Version(r) \in Versions /\ deploy[r].good \in BOOLEAN
    BY <1>4 DEF AddVersion, DeploysInv, DeploysTypeOK, Shape, Version, Deploy
  <2>2. [by |-> r, good |-> deploy[r].good] \in Egg \cup {None}
    BY <2>1 DEF Egg
  <2>3. \/ Put(n, Version(r), [by |-> r, good |-> deploy[r].good])
        \/ UNCHANGED <<held, changes>>
    BY <1>4 DEF AddVersion
  <2> QED BY <1>1, <1>3, <2>1, <2>2, <2>3
<1>5. ASSUME NEW r \in Requests, NEW n \in Nodes, Rollback(r, n) PROVE EggsMove
  <2>1. Version(r) \in Versions
    BY <1>5 DEF Rollback, DeploysInv, Shape, Version
  <2>2. Put(n, Version(r), None) \/ UNCHANGED <<held, changes>>
    BY <1>5 DEF Rollback
  <2> QED BY <1>1, <1>3, <2>1, <2>2
<1>6. ASSUME NEW r \in Requests, End(r) \/ \E n \in Nodes : ListSpiders(r, n) PROVE EggsMove
  BY <1>1, <1>6 DEF End, ListSpiders
<1>7. ASSUME NEW n \in Nodes, NEW gone, Removed(n, gone) PROVE EggsMove
  BY <1>0, <1>7, RemovedType DEF EggsMove
<1>8. ASSUME NEW n \in Nodes, ListVersions(n) \/ \E gone : Delete(n, gone) PROVE EggsMove
  BY <1>1, <1>7, <1>8 DEF ListVersions, Delete
<1>9. CASE PruneOld \/ PruneNext
  BY <1>1, <1>7, <1>9 DEF PruneOld, PruneNext, DeploysInv
<1> QED BY <1>2, <1>4, <1>5, <1>6, <1>8, <1>9 DEF NextDeploys

\* What is going to be pruned is not the latest of the list.
PruneOK == prune.pc = "deleting" => prune.todo \subseteq OldOnes(prune.seen)

LEMMA PruneStep == DeploysInv /\ PruneOK /\ [Next]_vars => PruneOK'
<1> SUFFICES ASSUME DeploysInv, PruneOK, [Next]_vars PROVE PruneOK'
  OBVIOUS
<1>0. prune \in Prune /\ counts \in [Counted -> Nat]
  BY DEF DeploysInv, DeploysTypeOK
<1>1. ASSUME prune' = prune PROVE PruneOK'
  BY <1>1 DEF PruneOK
<1>2. CASE NextForm
  BY <1>0, <1>1, <1>2, FormStays DEF DeploysStay, deployVars
<1>3. CASE UNCHANGED vars
  BY <1>1, <1>3 DEF vars, deployVars
<1>4. ASSUME NEW r \in Requests, NEW v, NEW good, NEW targets,
             \/ DeployPicked(r, v, good, targets) \/ DeployGit(r, v, good, targets)
             \/ DeployProject(r, v, good, targets) \/ Webhook(r, v, good, targets)
      PROVE  PruneOK'
  BY <1>1, <1>4 DEF DeployPicked, DeployGit, DeployProject, Webhook, Begin
<1>5. ASSUME NEW r \in Requests, NEW n \in Nodes,
             AddVersion(r, n) \/ ListSpiders(r, n) \/ Rollback(r, n)
      PROVE  PruneOK'
  BY <1>1, <1>5 DEF AddVersion, ListSpiders, Rollback
<1>6. ASSUME NEW n \in Nodes, NEW gone, Delete(n, gone) PROVE PruneOK'
  BY <1>1, <1>6 DEF Delete
<1>9. ASSUME NEW r, End(r) PROVE PruneOK'
  BY <1>1, <1>9 DEF End
<1>7. ASSUME NEW n, ListVersions(n) PROVE PruneOK'
  BY <1>7 DEF PruneOK, ListVersions
<1>10. CASE PruneOld
  <2>1. prune'.todo = OldOnes(prune.seen) /\ prune'.seen = prune.seen
    BY <1>0, <1>10 DEF PruneOld, Prune
  <2> QED BY <2>1 DEF PruneOK, OldOnes
<1>8. CASE PruneNext
  <2>1. \/ prune' = NoPrune
        \/ prune' = [prune EXCEPT !.todo = @ \ {Min(prune.todo)}]
    BY <1>8 DEF PruneNext
  <2> QED BY <1>0, <1>8, <2>1 DEF PruneOK, PruneNext, NoPrune, Prune
<1> QED BY <1>2, <1>3, <1>4, <1>5, <1>6, <1>7, <1>8, <1>9, <1>10 DEF Next, NextDeploys

\* PruneKeepsLatest for any number of nodes and versions.
THEOREM PruneKeepsLatestCorrect == Spec => PruneKeepsLatest
<1> DEFINE Spared(n) ==
        prune.pc = "deleting" /\ prune.node = n /\ prune'.todo # prune.todo
        /\ Max(prune.seen) \in Present(n) => Latest(n)' = Latest(n)
<1>1. DeploysInv /\ PruneOK /\ [Next]_vars => [\A n \in Nodes : Spared(n)]_deployVars
  <2> SUFFICES ASSUME DeploysInv, PruneOK, [Next]_vars, NEW n \in Nodes,
                      prune.pc = "deleting", prune.node = n, prune'.todo # prune.todo,
                      Max(prune.seen) \in Present(n)
               PROVE  Latest(n)' = Latest(n)
    OBVIOUS
  <2>0. /\ prune \in Prune /\ counts \in [Counted -> Nat] /\ held \in Eggs
        /\ changes \in [Nodes -> [Versions -> Nat]]
    BY DEF DeploysInv, DeploysTypeOK
  <2>1. PruneNext
    <3>1. prune' # prune
      OBVIOUS
    <3>2. ~NextForm /\ ~UNCHANGED vars
      BY <2>0, <3>1, FormStays DEF DeploysStay, deployVars, vars
    <3>3. ASSUME NEW r \in Requests, NEW v, NEW good, NEW targets,
                 \/ DeployPicked(r, v, good, targets) \/ DeployGit(r, v, good, targets)
                 \/ DeployProject(r, v, good, targets) \/ Webhook(r, v, good, targets)
          PROVE  FALSE
      BY <3>1, <3>3 DEF DeployPicked, DeployGit, DeployProject, Webhook, Begin
    <3>4. ASSUME NEW r \in Requests, NEW m \in Nodes,
                 AddVersion(r, m) \/ ListSpiders(r, m) \/ Rollback(r, m)
          PROVE  FALSE
      BY <3>1, <3>4 DEF AddVersion, ListSpiders, Rollback
    <3>7. ASSUME NEW r, End(r) PROVE FALSE
      BY <3>1, <3>7 DEF End
    <3>5. ASSUME NEW m \in Nodes, NEW gone, Delete(m, gone) \/ ListVersions(m) PROVE FALSE
      BY <3>1, <3>5 DEF Delete, ListVersions
    <3>6. ~PruneOld
      BY DEF PruneOld
    <3> QED BY <3>2, <3>3, <3>4, <3>5, <3>6, <3>7 DEF Next, NextDeploys
  <2>2. CASE UNCHANGED held
    BY <2>2 DEF Latest, Present
  <2>3. CASE prune.todo # {} /\ Removed(n, {Min(prune.todo)})
    <3> DEFINE S == Present(n)
               m == Max(prune.seen)
               v == Min(prune.todo)
    <3>1. /\ S \in SUBSET Nat /\ IsFiniteSet(S)
          /\ prune.todo \in SUBSET Nat /\ IsFiniteSet(prune.todo)
      <4>1. S \in SUBSET Versions /\ prune.todo \in SUBSET Versions
        BY <2>0 DEF Present, Prune
      <4> QED BY <4>1, VersionAssumption, FS_Subset
    <3>2. v \in prune.todo
      BY <2>3, <3>1, EndsOf
    <3>3. /\ v # m /\ v < m /\ m \in S
      <4>1. v \in prune.seen /\ v # m
        BY <3>2 DEF PruneOK, OldOnes
      <4>2. prune.seen \in SUBSET Nat /\ IsFiniteSet(prune.seen)
        <5>1. prune.seen \in SUBSET Versions
          BY <2>0 DEF Prune
        <5> QED BY <5>1, VersionAssumption, FS_Subset
      <4>3. v <= m /\ m \in Nat /\ v \in Nat
        BY <4>1, <4>2, EndsOf
      <4> QED BY <4>1, <4>3
    <3>4. Present(n)' = S \ {v}
      BY <2>0, <2>3 DEF Removed, Present, Eggs
    <3> HIDE DEF S, m, v
    <3>5. Max(S) \in S /\ \A x \in S : x <= Max(S)
      BY <3>1, <3>3, EndsOf
    <3>6. m \in Nat /\ v \in Nat /\ m <= Max(S) /\ Max(S) \in Nat
      BY <3>1, <3>2, <3>3, <3>5
    <3>7. Max(S) \in S \ {v}
      BY <3>3, <3>5, <3>6
    <3>8. Max(S \ {v}) = Max(S)
      <4> DEFINE T == S \ {v}
      <4>1. T \in SUBSET Nat /\ IsFiniteSet(T) /\ T # {}
        BY <3>1, <3>7, FS_Subset
      <4>2. Max(T) \in T /\ \A x \in T : x <= Max(T)
        BY <4>1, EndsOf
      <4>3. Max(T) <= Max(S) /\ Max(S) <= Max(T) /\ Max(T) \in Nat
        BY <3>5, <3>7, <4>1, <4>2
      <4> QED BY <3>6, <4>3
    <3>9. Latest(n) = Max(S) /\ Latest(n)' = Max(S \ {v})
      BY <3>4, <3>7 DEF Latest, S
    <3> QED BY <3>8, <3>9
  <2> QED BY <2>1, <2>2, <2>3 DEF PruneNext
<1>2. Init => PruneOK
  BY DEF Init, InitDeploys, NoPrune, PruneOK
<1> QED BY <1>1, <1>2, PruneStep, DeploysAlways, PTL DEF Spec, PruneKeepsLatest
=============================================================================
