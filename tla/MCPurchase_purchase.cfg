SPECIFICATION PurchaseSpec
CONSTANTS
    alice = alice
    bob = bob
    artist = artist
    c1 = c1
    t1 = t1
    Users = {alice, bob}
    Collections = {c1}
    Burnable = {}
    NoOwner = NoOwner
    Ids = {t1}
    ApprovedForAll <- NoApprovals
    MaxCounter = 0
    MaxNow = 1
    Unit = 10
    AmountMod = 4
    AmountCap = 38
    TimeMod = 4
    EndTimeCap = 3
    SaltMod = 4
    SaltCap = 3
    SlotMax = 2
    FeeNum = 1
    FeeDen = 5
    NoRecipient = NoRecipient
    OpenSea = OpenSea
    Payees = {artist}
    NoSignature = NoSignature
    Orders <- RoyaltyOrders
    WithOpensea = {FALSE}
    Wallet = bob
    Parts = 100
    Rates = {0, 5, 100}
INVARIANTS
    ListedIffStored
    RoundTrip
    BuyableIsShown
    TileBuys
PROPERTIES
    DelistedMeansSpent
    PaidAsListed
