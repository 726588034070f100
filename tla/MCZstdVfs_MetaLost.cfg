SPECIFICATION Spec
CONSTANTS
    MaxPgno = 2
    MaxTxn = 3
    DictPages = 1
    FailPoints = {"meta"}
PROPERTY WritesStayInTransaction
