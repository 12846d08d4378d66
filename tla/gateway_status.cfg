SPECIFICATION Spec
CONSTANTS
    None = None
    Call = {c1, c2}
    Route <- RouteKinds
    Faults = FALSE
INVARIANT RefusalIsNoSuccess
SYMMETRY Symmetry
