SPECIFICATION Spec
CONSTANTS
    r1 = r1
    r2 = r2
    Reqs = {r1, r2}
    Prompt <- MCPrompt
    Structured = {r2}
    MaxTokens = 3
    UpdateTokens = 1
    MaxModelLen = 7
    NumSpec = 1
    DynamicSpec = TRUE
    TokenBudget = 4
    BlockSize = 2
    NumBlocks = 5
    Align = TRUE
    MayStop = {r1}
    Confs <- MCConfs
    Trouble = 2
    Updates = 1
INVARIANTS TypeOK OneQueue RunnerAgrees StepFits SlotsSuffice
PROPERTIES InOrder Served
CHECK_DEADLOCK FALSE
