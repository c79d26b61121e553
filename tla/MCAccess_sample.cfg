CONSTANTS
    getUsers = getUsers
    getUser = getUser
    addUser = addUser
    deleteUser = deleteUser
    clearUsers = clearUsers
    firstUser = firstUser
    removeUser = removeUser
    v1 = v1
    v2 = v2
    Value = {v1, v2}
    Null = Null
    NoRow = NoRow
    NoCall = NoCall
    NoAnswer = NoAnswer
    Sql <- MCSql
    Arity <- MCArity
    Returning <- MCReturning
    Result <- MCResult
    Width = 2
    MaxId = 2
    Func = {getUsers, getUser, addUser, deleteUser, clearUsers}
SPECIFICATION Spec
SYMMETRY MCSymmetry
INVARIANTS
    NothingLeftOpen
PROPERTIES
    CallsAreFresh
    OwnArguments
