SPECIFICATION FairSpec
CONSTANTS
    r1 = r1  r2 = r2  r3 = r3  r4 = r4
    e1 = e1  e2 = e2  e3 = e3  c1 = c1  c2 = c2  n1 = n1  n2 = n2  t1 = t1
    Seed = Seed  None = None
    Req = {r1, r2, r3, r4}
    Email = {e1, e2, e3}
    Code = {c1}
    Name = {n1, n2}
    TaxId = {t1}
    Seeded = {e3}
    Deletable = {}
    Faults = FALSE
    Inputs <- MixedInputs
INVARIANTS AckedIsComplete TaxIdUniqueUnlessOverlap SerialRefusalIsClean
PROPERTY AccountCompletes
