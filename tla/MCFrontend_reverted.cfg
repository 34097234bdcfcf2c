SPECIFICATION Spec
CONSTANTS
    c1 = c1
    c2 = c2
    t1 = t1
    t2 = t2
    t3 = t3
    Collections = {c1, c2}
    defaultCollection = c1
    Ids = {t1, t2, t3}
    OldList <- TwoListed
    Loads = {1, 2}
    Royalty <- FirstRoyalty
    Unset = Unset
    NaN = NaN
    HexBase = 3
    DecBase = 3
    MaxChanges = 1
INVARIANTS
    SaleNeedsApproval
CHECK_DEADLOCK FALSE
