SPECIFICATION Spec
CONSTANTS
    MaxPgno = 3
    MaxTxn = 3
    DictPages = 1
    FailPoints = {"begin", "write", "delete", "commit", "read"}
CONSTRAINT UntilTorn
INVARIANTS TypeOK NoTornCommit Reopenable ReadsLastCommit
PROPERTIES ImplementsAtomicStore WritesStayInTransaction
