\* One job, one browser refresh and one crash: safety of the notices and convergence
\* of the Job table.
CONSTANTS
    Jobs = {j1}
    Requests = {q1}
    Full = 2
    MaxRequests = 1
    MaxCrashes = 1
    NoRow = NoRow
SPECIFICATION FairSpec
INVARIANT TypeOK
PROPERTIES
    NoRepeatOnceCommitted
    TableSettles
