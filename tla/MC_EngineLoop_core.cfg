SPECIFICATION Spec
CONSTANTS
    r1 = r1
    r2 = r2
    r3 = r3
    r4 = r4
    NoReq = NoReq
    Reqs = {r1, r2, r3}
    Embeds = {r3}
    Cancellable = {r1, r2}
    Blocks = {b1, b2, b3, b4}
    NoBlock = NoBlock
    NoHash = NoHash
    NoTokens = NoTokens
    Hashes <- MCHashes
    TokenSeqs <- MCTokenSeqs
    BlockSize = 2
    PrefixCache = FALSE
    Prompt <- CorePrompt
    Prio <- MCPrio
    MaxTokens <- CoreMaxTokens
    Config <- CoreConfig
SYMMETRY Symmetries
INVARIANTS
    TypeOK
    ReadsOwnContext
    RefsMatch
    SchedulerAgrees
    BlocksAgree
    BatchWithinBudget
    
CHECK_DEADLOCK FALSE
