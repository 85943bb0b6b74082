SPECIFICATION InputsSpec
CONSTANTS
    None = None
    Requests <- MCRequests
    PresetIDs = {"preset:p"}
    Fold <- MCFold
    Number <- MCNumber
    MaxKeys = 2
    Nil = Nil
    Chars <- Alphabet
    Inputs <- MCInputs
    Nothing = Nothing
    MaxNodes = 4
    Bins = {"age"}
    Comparisons = {"eq", "gt"}
    Types = {"string", "integer", "boolean"}
    Texts = {"x"}
    Numbers = {"1.5"}
    Wholes = {}
    Blank = {"", " "}
    Unset = Unset
    Files <- MCFiles
    Trim <- MCTrim
    Lower <- MCLower
    Prefixed = {"preset:a", "preset:b"}
    Tools = {"redis"}
    Routes <- MCRoutes
INVARIANTS ServedAsAsked CommandIsRead ReadOnly FilterArrives LoadedIffSound LookUpsAgree
PROPERTIES ConnectedMeansFound
CHECK_DEADLOCK FALSE
