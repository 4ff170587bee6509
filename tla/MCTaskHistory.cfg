\* As MCTimerTasks with one selection and a node list that may be empty: the
\* refinement, whose mapping is costly.
CONSTANTS
    Task = {t1}
    NoTask = NoTask
    Run = {r1, r2}
    Session = {s1}
    MaxNode = 2
    Selections = {{1, 2}}
    ServerCounts = {0, 2}
    KeepLimit = 1
    MaxInstances = 1
SPECIFICATION Spec
SYMMETRY Symmetry
PROPERTIES
    ImplementsHistory
