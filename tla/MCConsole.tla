----------------------------- MODULE MCConsole -----------------------------
EXTENDS Console
CONSTANTS a, b
ListsAB == {<<a, b>>, <<b>>, << >>}
\* No more than so many of each.
Of(page, edits, away, acts, ends, failures, submits) ==
    [view |-> page,
     limits |-> [edits |-> edits, away |-> away, acts |-> acts, handled |-> acts,
                 ends |-> ends, failures |-> failures, submits |-> submits]]
\* An action under an edited list (a task has no node); an action on work that ends, on
\* either page; the session, with another tab and a lost read.
Four == {Of("jobs", 1, 0, 1, 0, 0, 0), Of("jobs", 0, 0, 1, 1, 0, 0),
         Of("tasks", 0, 0, 1, 1, 0, 0), Of("jobs", 0, 1, 0, 0, 1, 2)}
=============================================================================
