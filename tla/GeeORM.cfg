CONSTANTS
    User = User
    Account = Account
    Models = {User, Account}
    Keys = {k1, k2}
    Vals = {v1, v2}
    Hooked <- MCHooked
    Driver = "sqlite3"
    MaxOps = 4
    Structs <- MCStructs
    OldStructs <- MCOldStructs
    NoModel = NoModel
    NoTable = NoTable
    Absent = Absent
    NoWhere = NoWhere
SPECIFICATION Spec
INVARIANTS
    TypeOK
    TxEndsWithTransaction
PROPERTIES
    TransactionAtomic
    MigrateSyncsTable
CHECK_DEADLOCK FALSE
