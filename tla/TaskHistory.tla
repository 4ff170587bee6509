---------------------------- MODULE TaskHistory ----------------------------
(***************************************************************************)
(* What the timer-task history promises its reader, with no executor, job  *)
(* or transaction in sight.  A firing's record is opened with the nodes it *)
(* wants, gets one outcome per wanted node, and is closed only when every  *)
(* wanted node has one, with the totals of those outcomes.  Open records   *)
(* can be cut short, together; any records can be dropped, whole.          *)
(* TimerTasks implements this specification.                               *)
(***************************************************************************)
EXTENDS Naturals, FiniteSets

CONSTANTS Run, Node

VARIABLES
    phase,     \* "idle", "open", "closed", "cut" or "dropped"
    wanted,    \* the nodes the firing is to try
    good,      \* nodes whose outcome is ok
    bad,       \* nodes whose outcome is not
    total      \* the totals shown with the record

vars == <<phase, wanted, good, bad, total>>

Blank == [pass |-> 0, fail |-> 0]

Init ==
    /\ phase = [r \in Run |-> "idle"]
    /\ wanted = [r \in Run |-> {}]
    /\ good = [r \in Run |-> {}]
    /\ bad = [r \in Run |-> {}]
    /\ total = [r \in Run |-> Blank]

Open(r, nodes) ==
    /\ phase[r] = "idle"
    /\ phase' = [phase EXCEPT ![r] = "open"]
    /\ wanted' = [wanted EXCEPT ![r] = nodes]
    /\ UNCHANGED <<good, bad, total>>

Judge(r, n) ==
    /\ phase[r] = "open"
    /\ n \in wanted[r] \ (good[r] \cup bad[r])
    /\ \/ good' = [good EXCEPT ![r] = @ \cup {n}] /\ UNCHANGED bad
       \/ bad' = [bad EXCEPT ![r] = @ \cup {n}] /\ UNCHANGED good
    /\ UNCHANGED <<phase, wanted, total>>

Close(r) ==
    /\ phase[r] = "open"
    /\ wanted[r] = good[r] \cup bad[r]
    /\ phase' = [phase EXCEPT ![r] = "closed"]
    /\ total' = [total EXCEPT ![r] = [pass |-> Cardinality(good[r]),
                                      fail |-> Cardinality(bad[r])]]
    /\ UNCHANGED <<wanted, good, bad>>

Cut(R) ==
    /\ \A r \in R : phase[r] = "open"
    /\ phase' = [r \in Run |-> IF r \in R THEN "cut" ELSE phase[r]]
    /\ UNCHANGED <<wanted, good, bad, total>>

Drop(R) ==
    /\ \A r \in R : phase[r] # "idle"
    /\ phase' = [r \in Run |-> IF r \in R THEN "dropped" ELSE phase[r]]
    /\ wanted' = [r \in Run |-> IF r \in R THEN {} ELSE wanted[r]]
    /\ good' = [r \in Run |-> IF r \in R THEN {} ELSE good[r]]
    /\ bad' = [r \in Run |-> IF r \in R THEN {} ELSE bad[r]]
    /\ total' = [r \in Run |-> IF r \in R THEN Blank ELSE total[r]]

Next ==
    \/ \E r \in Run : \/ \E nodes \in SUBSET Node : Open(r, nodes)
                      \/ \E n \in Node : Judge(r, n)
                      \/ Close(r)
    \/ \E R \in SUBSET Run : Cut(R) \/ Drop(R)

Spec == Init /\ [][Next]_vars
=============================================================================
