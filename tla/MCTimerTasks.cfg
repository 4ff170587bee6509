\* One firing of one task, over both nodes or the second, and one for an orphan job:
\* a node list that shrinks and grows, a deletion or cleanup in flight,
\* crashes and restarts.
CONSTANTS
    Task = {t1}
    NoTask = NoTask
    Run = {r1, r2}
    Session = {s1}
    MaxNode = 2
    Selections = {{1, 2}, {2}}
    ServerCounts = {1, 2}
    KeepLimit = 1
    MaxInstances = 1
SPECIFICATION Spec
SYMMETRY Symmetry
INVARIANTS
    TypeOK
    ClosedIsComplete
    OneOutcomePerNode
    CleanupTakesOnlyClosed
PROPERTIES
    NoRepeatAfterAck
    ClosedIsFinal
