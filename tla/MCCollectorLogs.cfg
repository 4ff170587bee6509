\* The collector alone, fair: finished logs are parsed (violated).
CONSTANTS
    Jobs = {j1}
    Requests = {q1}
    Full = 2
    MaxRequests = 0
    MaxCrashes = 0
    NoRow = NoRow
SPECIFICATION FairSpec
PROPERTY FinishedLogParsed
