\* Two firings of one task, without symmetry, on one node or none: the liveness
\* properties.
CONSTANTS
    Task = {t1}
    NoTask = NoTask
    Run = {r1, r2}
    Session = {s1}
    MaxNode = 1
    Selections = {{1}}
    ServerCounts = {0, 1}
    KeepLimit = 1
    MaxInstances = 1
SPECIFICATION FairSpec
PROPERTIES
    RunEnds
    OrphanJobHeals
