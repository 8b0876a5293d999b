SPECIFICATION Spec
CONSTANTS
    Lines <- MCLines
    MaxLines = 2
INVARIANTS
    TypeOK
    CommandsAreLines
PROPERTIES
    LinesAnswered
CHECK_DEADLOCK FALSE
