SPECIFICATION ListingsSpec
CONSTANTS
    alice = alice
    bob = bob
    artist = artist
    curator = curator
    c1 = c1
    t1 = t1
    t2 = t2
    t3 = t3
    Users = {alice}
    Collections = {c1}
    Burnable = {c1}
    NoOwner = NoOwner
    Ids = {t1, t2, t3}
    ApprovedForAll <- NoApprovals
    MaxCounter = 0
    MaxNow = 0
    Unit = 10
    AmountMod = 4
    AmountCap = 38
    TimeMod = 4
    EndTimeCap = 3
    SaltMod = 4
    SaltCap = 3
    SlotMax = 3
    FeeNum = 1
    FeeDen = 5
    NoRecipient = NoRecipient
    OpenSea = OpenSea
    Payees = {artist, curator}
    NoSignature = NoSignature
    Orders <- AllOrders
    WithOpensea = {FALSE}
INVARIANTS
    TypeOK
    RecipientsKept
    ComposeNeverOverflows
    BuyableIsShown
    IndexSound
    ListedIffStored
PROPERTIES
    ImplementsBook
\* When every token is burned nothing is left to do.
CHECK_DEADLOCK FALSE
