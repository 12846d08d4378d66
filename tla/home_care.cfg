SPECIFICATION FairSpec
CONSTANTS
    c1 = c1  c2 = c2  e1 = e1  e2 = e2  k1 = k1  n1 = n1  t1 = t1
    Seed = Seed  None = None
    Call = {c1, c2}
    Email = {e1, e2}
    Code = {k1}
    Name = {n1}
    TaxId = {t1}
    Seeded = {e2}
    Deletable = {e2}
    Faults = TRUE
    Inputs <- CallInputs
INVARIANTS AnsweredIsWhole WritesAreVetted
PROPERTY EveryCallAnswered
