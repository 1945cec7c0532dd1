SPECIFICATION Spec
CONSTANTS
    None = None
    NoValue = NoValue
    FormulaOnly = FormulaOnly
    ErrorValue = "#REF!"
    MaxRows = 6
    MaxColumns = 5
    Read <- MCRead
    ReadName <- MCReadName
    Files <- MCFiles
    HandWritten <- MCHandWritten
    Requests <- MCRequests
    Today = 500
    EarliestPlausible = 0
    MissingPercent = 30
    NegativePercent = 50
    MinFailures = 2
    MinRun = 2
    Fragile = {"excessive_missing_values", "inconsistent_capitalization"}
CHECK_DEADLOCK FALSE
INVARIANTS
    TypeOK
    RowsKeepTheirPlace
    CountsAgreeWithRows
    FailureOnlyRaisesTrust
    RulesAreRight
