SPECIFICATION FairSpec
CONSTANTS
    plain = plain  both = both  either = either
    None = None
    Req = {r1}
    Role = {a1, a2}
    Route = {plain, both, either}
    Mark <- Marks
    Faults = TRUE
INVARIANTS TypeOK AdmittedIsVouched RefusalIsJustified ForbiddenIsAuthentic
PROPERTY EveryCallDecided
