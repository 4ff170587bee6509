SPECIFICATION FairSpec
CONSTANTS
    a = a
    b = b
    Servers = {a, b}
    App = App
    Lists <- ListsAB
    None = None
    Failed = Failed
    Scenarios <- Four
CHECK_DEADLOCK FALSE
INVARIANTS
    TypeOK
    
    
PROPERTIES
    ReadYourActs
    LoginSettles
    SignedOutLeaves
    NodesHeal
