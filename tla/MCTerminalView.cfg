SPECIFICATION Spec
CONSTANTS
    Narrow <- MCNarrow
    Wide = {"W"}
    Marks = {"'"}
    Space = " "
    Sizes <- MCSizes
    Starts <- MCStarts
    Outputs <- MCOutputs
    Query <- MCQuery
    PromptSign = "$"
    Letters = {"a", "W"}
    Pastes <- MCPastes
    Recalled <- MCRecalled
    Limits = {2, 3}
    MaxSteps = 3
    MaxKeys = 4
    MaxLine = 3
INVARIANTS ScreenIsSound CommandsAreTrue ClickArrives
PROPERTIES TextSurvives FindShowsQuery
CHECK_DEADLOCK FALSE
