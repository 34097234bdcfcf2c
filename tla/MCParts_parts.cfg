SPECIFICATION PartsSpec
CONSTANTS
    alice = alice
    artist = artist
    curator = curator
    c1 = c1
    t1 = t1
    Unit = 10
    AmountMod = 8
    AmountCap = 50
    TimeMod = 4
    EndTimeCap = 3
    SaltMod = 4
    SaltCap = 3
    SlotMax = 3
    FeeNum = 1
    FeeDen = 5
    NoRecipient = NoRecipient
    OpenSea = OpenSea
    NoListing = NoListing
    Accounts = {alice, artist, curator}
    Collections = {c1}
    Ids = {t1}
    Inputs <- AllInputs
    WordMod = 3
    AddressMod = 2
    WordBits = 4
    KeyBits = 3
    ValueBits = 1
    MathSqrt <- Sqrt
    MaxLength = 6
    FirstBlock = 2
    MaxBlock = 9
    TraceKeys = {0, 2, 3, 5, 7}
    Amounts = {0, 1, 2}
    NoCall = NoCall
    Arguments <- Paths
    ReadDir <- Directories
    Solidity <- SolidityFiles
    ImportPaths <- AllPaths
    pathUpdates <- Table
    Contents <- Texts
    Unread = Unread
INVARIANTS
    StorableComposes
    OpenseaAsSigned
    TypeOK
    ContainersSound
    HistorySorted
    LookupOnTrack
    LookupRight
    CastExact
    ImportsKept
    RunMigrates
PROPERTIES
    PastIsFixed
    LookupEnds
    ImplementsDictionary
