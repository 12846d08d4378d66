SPECIFICATION Spec
CONSTANTS
    None = None  Undefined = Undefined
    Req = {r1, r2, r3}
    User = {n1, n2}
    RowId = {n1, n2}
    Manager = {m1}
    Faults = TRUE
INVARIANTS TypeOK AckedDecisionIsChange DatedIffVerified GuardReadsOwnRow
SYMMETRY Symmetry
