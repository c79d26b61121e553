CONSTANTS
    c1 = c1
    c2 = c2
    rd = rd
    wr = wr
    rt = rt
    Conn = {c1, c2}
    Stmt = {rd, wr, rt}
    Kind <- MCKind
    NoStmt = NoStmt
    MaxWrites = 1
    MaxRows = 1
    Usage = {"autocommit", "upgrade", "straddle"}
SPECIFICATION Spec
SYMMETRY MCSymmetry
INVARIANTS
    AckedSafe
    InTransactionSound
    OneRun
PROPERTIES
    TransactionAtomic
    RepeatableReads
