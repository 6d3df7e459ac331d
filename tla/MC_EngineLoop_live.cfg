SPECIFICATION FairSpec
CONSTANTS
    r1 = r1
    r2 = r2
    r3 = r3
    r4 = r4
    NoReq = NoReq
    Reqs = {r1, r2, r3}
    Embeds = {r3}
    Cancellable = {r1}
    Blocks = {b1, b2}
    NoBlock = NoBlock
    NoHash = NoHash
    NoTokens = NoTokens
    Hashes <- ScarceHashes
    TokenSeqs <- MCTokenSeqs
    BlockSize = 2
    PrefixCache = TRUE
    Prompt <- ScarcePrompt
    Prio <- MCPrio
    MaxTokens <- ScarceMaxTokens
    Config <- ScarceConfig
PROPERTIES
    EveryRequestEnds
CHECK_DEADLOCK FALSE
