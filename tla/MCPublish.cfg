SPECIFICATION Spec
CONSTANTS
    Requests = {r1, r2}
    Nodes <- TwoNodes
    Versions <- TwoVersions
    Early <- First
    Users = {u1, u2}
    Args = {x, y}
    Whens = {w1, w2}
    SlotLimit = 1
    None = None
    Limits <- Scenarios
SYMMETRY Symmetric
CHECK_DEADLOCK FALSE
INVARIANTS
    TypeOK
    NoBrokenLeft
    
    EachNodeOnce
    
PROPERTIES
    RunsWhatWasChecked
    
    PruneKeepsLatest
