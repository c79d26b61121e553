CONSTANTS
    f1 = f1
    f2 = f2
    u1 = u1
    u2 = u2
    Func = {f1, f2}
    Piece = {u1}
    SqlText <- MCSqlText
    Together <- MCTogether
SPECIFICATION Spec
INVARIANTS
    Saved
    Recoverable
    RunKeepsText
    OkMeansGenerated
    HeaderAgrees
    Idempotent
