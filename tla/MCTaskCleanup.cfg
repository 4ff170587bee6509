\* Two firings of one task, which may overlap, on one node, and a third for an orphan
\* job: what a cleanup, a deletion and two executors do to each other.
CONSTANTS
    Task = {t1}
    NoTask = NoTask
    Run = {r1, r2, r3}
    Session = {s1}
    MaxNode = 1
    Selections = {{1}}
    ServerCounts = {1}
    KeepLimit = 1
    MaxInstances = 2
SPECIFICATION Spec
SYMMETRY Symmetry
INVARIANTS
    CleanupTakesOnlyClosed
