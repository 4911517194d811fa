CONSTANTS
    Venues = {v1, v2}
    LastPeriod = 2
    Late = {2}
    LateRun = 2
    Today = 2
    LastDay = 3
    Span = 2
    Before = 1
    Stock = 2
    Cap = 2
    Quota = 2
    MaxRows = 2
    MaxKey = 3
    MaxTaken = 1
    None = None
    v1 = v1
    v2 = v2
SPECIFICATION Spec
SYMMETRY Symmetry
CHECK_DEADLOCK FALSE
INVARIANTS LoanIsJudged ChoicesInv
