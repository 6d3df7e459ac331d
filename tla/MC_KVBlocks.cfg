SPECIFICATION Spec
CONSTANTS
    Blocks = {b1, b2, b3}
    Clients = {c1, c2}
    hX = hX
    hXY = hXY
    x = x
    y = y
    Hashes <- MCHashes
    TokenSeqs <- MCTokenSeqs
    Prompts <- MCPrompts
    MaxAlloc = 3
    NoBlock = NoBlock
    NoHash = NoHash
    NoTokens = NoTokens
SYMMETRY Symmetries
INVARIANTS
    TypeOK
    RefsAccounted
    FreeListExclusive
    NoBlockStranded
    CacheCoherent
PROPERTY EvictOnlyUnderPressure
CHECK_DEADLOCK FALSE
