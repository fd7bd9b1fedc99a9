SPECIFICATION Spec

CONSTANTS
    Requests = {1, 2}
    MaxText = 7
    MaxTotal <- MCTotal
    MaxEos = 1
    MaxPrompt = 3
    MaxWidth = 7
    Size = 3
    Eos = 1
    StateLen = 2
    Zero = Zero
    Confs <- MCConfs

INVARIANTS
    TypeOK
    WindowsAreHistory
    GramsAreHistory
    NothingFails
