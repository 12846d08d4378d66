SPECIFICATION FairSpec
CONSTANTS
    r1 = r1  r2 = r2  r3 = r3  None = None
    Req = {r1, r2, r3}
    User = {u1}
    Known = {}
    Unlucky <- SomeUnlucky
INVARIANTS TypeOK OneTokenPerDevice LogoutFinal DeliveredTokenWorks RefusalJustified
PROPERTIES TokensAreSingleUse SpenderSucceeds
