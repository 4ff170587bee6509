\* As MCTaskCleanup; the crash of an executor is what violates it.
CONSTANTS
    Task = {t1}
    NoTask = NoTask
    Run = {r1, r2, r3}
    Session = {s1}
    MaxNode = 1
    Selections = {{1}}
    ServerCounts = {1}
    KeepLimit = 1
    MaxInstances = 1
SPECIFICATION Spec
SYMMETRY Symmetry
PROPERTIES
    KeepLimitHonoured
