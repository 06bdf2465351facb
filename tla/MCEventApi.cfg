SPECIFICATION ApiSpec
CONSTANTS
    ana = ana
    beto = beto
    Null = Null
    WrongType = WrongType
    Trim <- MCTrim
    NulText = {"nul"}
    LastYearEnd = 99
    User = {ana, beto}
    CreateBody <- MCCreateBody
    PatchBody <- MCPatchBody
    ItemChange <- MCItemChange
    MaxItems = 2
    NoBackup = NoBackup
    LastId = 3
    Requests = 4
SYMMETRY MCSymmetry
CHECK_DEADLOCK FALSE
INVARIANTS
    ExportIsComplete
    AnswerIsStored
PROPERTIES
    RestoreRestores
    PatchIsMerge
