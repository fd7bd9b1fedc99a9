SPECIFICATION Spec
CONSTANTS
    r1 = r1
    r2 = r2
    Reqs = {r1, r2}
    Prompt <- MCPrompt
    Structured = {}
    MaxTokens = 3
    UpdateTokens = 1
    MaxModelLen = 7
    NumSpec = 2
    DynamicSpec = TRUE
    TokenBudget = 4
    BlockSize = 2
    NumBlocks = 5
    Align = TRUE
    MayStop = {r1}
    Confs <- MCConfs
    Trouble = 2
    Updates = 1
INVARIANT AdmitsWork
CHECK_DEADLOCK FALSE
