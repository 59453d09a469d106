CONSTANTS
    Callers = {c1, c2}
    Limit = 4
    Window = 3
    Estimates = {1, 3, 5}
    Actuals = {0, 2, 6}
    MaxRequests = 3
SPECIFICATION Spec
INVARIANTS UsageIsTrue WithinLimit
PROPERTIES WaitIsExact EveryoneProceeds
