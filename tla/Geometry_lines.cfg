SPECIFICATION GeometrySpec
CONSTANTS
    MaxLines = 5
    Contexts <- MCContexts
    Budgets <- MCBudgets
    Asked = 2
    PerLine = 4
    MaxContext = 3
    Ranges <- MCRanges
    Drifts <- MCDrifts
    MaxCuts = 2
CHECK_DEADLOCK FALSE
INVARIANT LinesAreTrue
INVARIANT CommentsLand
