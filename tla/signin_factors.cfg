SPECIFICATION Spec
CONSTANTS
    r1 = r1  r2 = r2  w1 = w1  w2 = w2  c1 = c1  c2 = c2  None = None
    Req = {r1, r2}
    User = {u1}
    Password = {w1, w2}
    Code = {c1, c2}
    Role = {x}
    MaxEdits = 2
INVARIANTS TypeOK SignInRests SignInNotRefused RenewalIsCurrent
SYMMETRY Symmetry
