CONSTANTS
    c1 = c1
    c2 = c2
    rd = rd
    wr = wr
    rt = rt
    Conn = {c1, c2}
    Stmt = {rd, wr}
    Kind <- MCKindW
    NoStmt = NoStmt
    MaxWrites = 1
    MaxRows = 1
    Usage = {"autocommit"}
SPECIFICATION PatientSpec
PROPERTY
    CallsReturn
