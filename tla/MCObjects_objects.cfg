CONSTANTS
    d1 = d1
    d2 = d2
    q1 = q1
    q2 = q2
    h1 = h1
    h2 = h2
    s1 = s1
    s2 = s2
    Database = {d1, d2}
    Query = {q1, q2}
    Conn = {h1, h2}
    Stmt = {s1, s2}
    Null = Null
    Gone = Gone
    Columns <- MCColumns
SPECIFICATION Spec
CHECK_DEADLOCK FALSE
SYMMETRY MCSymmetry
INVARIANTS
    StatementsOwned
    ConnectionsOwned
    QueriesConnected
    NamesAgree
