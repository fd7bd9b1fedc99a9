SPECIFICATION Spec
CONSTANTS
    r1 = r1
    r2 = r2
    Reqs = {r1, r2}
    Prompt <- KvPrompt
    Structured = {}
    MaxTokens = 3
    UpdateTokens = 1
    MaxModelLen = 7
    NumSpec = 1
    DynamicSpec = FALSE
    TokenBudget = 3
    BlockSize = 2
    NumBlocks = 6
    Align = TRUE
    MayStop = {}
    Confs <- KvConfs
    Trouble = 1
    Updates = 1
INVARIANTS BlocksPartitioned LoadsUndisturbed
PROPERTIES BlocksReturn
CHECK_DEADLOCK FALSE
