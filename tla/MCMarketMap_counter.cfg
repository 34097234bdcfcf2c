SPECIFICATION Spec
CONSTANTS
    alice = alice
    bob = bob
    artist = artist
    curator = curator
    c1 = c1
    t1 = t1
    t2 = t2
    t3 = t3
    Users = {alice, bob}
    Collections = {c1}
    Burnable = {}
    NoOwner = NoOwner
    Ids = {t1}
    ApprovedForAll <- OldApprovals
    MaxCounter = 1
    MaxNow = 1
    Unit = 10
    AmountMod = 4
    AmountCap = 38
    TimeMod = 4
    EndTimeCap = 3
    SaltMod = 4
    SaltCap = 3
    SlotMax = 2
    FeeNum = 1
    FeeDen = 5
    NoRecipient = NoRecipient
    OpenSea = OpenSea
    Payees = {artist, curator}
    NoSignature = NoSignature
    Orders <- AliceOrders
    WithOpensea = {TRUE, FALSE}
INVARIANTS
    BuyableIsShown
PROPERTIES
    DelistedMeansSpent
    CancelTakesEffect
