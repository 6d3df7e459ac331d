SPECIFICATION Spec
CONSTANTS
    r1 = r1
    r2 = r2
    r3 = r3
    r4 = r4
    NoReq = NoReq
    Reqs = {r1, r2}
    Embeds = {}
    Cancellable = {}
    Blocks = {b1, b2, b3}
    NoBlock = NoBlock
    NoHash = NoHash
    NoTokens = NoTokens
    Hashes <- MCHashes
    TokenSeqs <- MCTokenSeqs
    BlockSize = 2
    PrefixCache = TRUE
    Prompt <- SharedPrompt
    Prio <- MCPrio
    MaxTokens <- SharedMaxTokens
    Config <- SharedConfig
SYMMETRY Symmetries
INVARIANTS
    ReadsOwnContext
CHECK_DEADLOCK FALSE
