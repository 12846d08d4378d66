SPECIFICATION Spec
CONSTANTS
    r1 = r1  r2 = r2  i1 = i1  a = a  b = b  None = None
    Pod = {p1, p2}
    Req = {r1, r2}
    Email = {a, b}
    RoleId = {i1, i2}
    Inputs <- Bodies
    Seeded <- CustomerOnly
    MaxEdits = 2
    Unlucky <- SomeUnlucky
INVARIANTS TypeOK OwnAccountUnlessOverlap RoleWasCurrent RefusalHasCause
SYMMETRY Symmetry
