CONSTANTS
    MaxLen = 7
    MaxInner = 5
    MaxFunctions = 3
    MaxColumns = 3
    Text <- MCText
    Functions <- MCFunctions
    NoCode = NoCode
SPECIFICATION MCSpec
CHECK_DEADLOCK FALSE
INVARIANTS
    TokensAreText
    RegexAgrees
    AnnotationsAgree
    StagesTypeOK
    FieldsDeclared
    ExistsSet
    ColumnsMatch
