SPECIFICATION Spec
CONSTANTS
    Prose <- MCProse
    Cases <- MCCases
    Answers <- MCAnswers
    CellWords <- MCCellWords
CHECK_DEADLOCK FALSE
INVARIANTS
    TypeOK
    AcceptedIsGrounded
    SchemaAndValidatorAgree
    CallsEndAsPromised
