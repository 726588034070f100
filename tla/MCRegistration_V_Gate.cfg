SPECIFICATION Spec
CONSTANTS
    Logins = {"none", "sasl", "oauth"}
    Offers <- MCOffers
    MaxConns = 2
    MaxRounds = 1
    MaxEvents = 1
PROPERTY OnlyOurFail
CHECK_DEADLOCK FALSE
