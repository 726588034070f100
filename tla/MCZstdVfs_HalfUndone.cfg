SPECIFICATION Spec
CONSTANTS
    MaxPgno = 2
    MaxTxn = 2
    DictPages = 1
    FailPoints = {"write"}
INVARIANT CommitsWhole
