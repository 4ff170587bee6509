----------------------------- MODULE MCPublish -----------------------------
EXTENDS ScheduleForm, TLC
\* No more than so many of each.
Bound(deploys, losses, deletes, lists, submits, edits, reads) ==
    [deploys |-> deploys, losses |-> losses, deletes |-> deletes, lists |-> lists,
     submits |-> submits, edits |-> edits, reads |-> reads]
TwoNodes == {1, 2}
TwoVersions == {1, 2}
First == {{1}}
Symmetric == Permutations(Users) \cup Permutations(Requests)
\* Two deploys, a call lost; a deploy and a pruning; a deploy under a form; a form edited;
\* two forms, a task edited; two forms, a task deleted.
Scenarios == {Bound(2, 1, 0, 0, 0, 0, 0), Bound(1, 1, 1, 1, 0, 0, 0),
              Bound(1, 0, 0, 0, 1, 0, 0), Bound(0, 1, 0, 0, 1, 2, 0),
              Bound(0, 0, 0, 0, 2, 1, 1), Bound(0, 0, 1, 0, 2, 0, 1)}
=============================================================================
