\* The collector alone, without requests or crashes: a committed cycle keeps every
\* listed job (violated).
CONSTANTS
    Jobs = {j1}
    Requests = {q1}
    Full = 2
    MaxRequests = 0
    MaxCrashes = 0
    NoRow = NoRow
SPECIFICATION Spec
PROPERTY CycleKeepsListed
