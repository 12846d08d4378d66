SPECIFICATION FairSpec
CONSTANTS
    None = None
    Call = {c1, c2}
    Route <- RouteKinds
    Faults = TRUE
INVARIANTS TypeOK CheckedBeforeRun NobodyForgotten
PROPERTIES EveryCallAnswered CallsAreRemote
