CONSTANTS
    c1 = c1
    c2 = c2
    rd = rd
    wr = wr
    rt = rt
    Conn = {c1, c2}
    Stmt = {rd, rt}
    Kind <- MCKindRt
    NoStmt = NoStmt
    MaxWrites = 1
    MaxRows = 1
    Usage = {"autocommit", "cursor"}
SPECIFICATION Spec
SYMMETRY MCSymmetry
INVARIANT
    AckedSafe
