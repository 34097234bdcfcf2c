SPECIFICATION StorageSpec
CONSTANTS
    alice = alice
    artist = artist
    curator = curator
    c1 = c1
    t1 = t1
    Unit = 10
    AmountMod = 8
    AmountCap = 50
    TimeMod = 4
    EndTimeCap = 3
    SaltMod = 4
    SaltCap = 3
    SlotMax = 3
    FeeNum = 1
    FeeDen = 5
    NoRecipient = NoRecipient
    OpenSea = OpenSea
    NoListing = NoListing
    Accounts = {alice, artist, curator}
    Collections = {c1}
    Ids = {t1}
    Inputs <- RoyaltyInputs
INVARIANTS
    ValidatedIsKept
