\* One firing of one task on one node, and a node list that may be empty.
CONSTANTS
    Task = {t1}
    NoTask = NoTask
    Run = {r1, r2}
    Session = {s1}
    MaxNode = 1
    Selections = {{1}}
    ServerCounts = {0, 1}
    KeepLimit = 1
    MaxInstances = 1
SPECIFICATION Spec
SYMMETRY Symmetry
PROPERTIES
    EveryOutcomeRecorded
