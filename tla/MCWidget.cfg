SPECIFICATION Spec
CONSTANTS
    Line <- MCLine
    Command <- MCCommand
    Blank <- MCBlank
    Empty = ""
    Null = Null
    SameText <- MCSameText
    Limit = 3
INVARIANTS
    TypeOK
    CycleInShape
    ShownIsHighlighted
PROPERTIES
    EscapeRestores
