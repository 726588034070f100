SPECIFICATION Spec
CONSTANTS
    Logins = {"none", "sasl", "oauth"}
    Offers <- MCOffers
    MaxConns = 2
    MaxRounds = 1
    MaxEvents = 1
INVARIANT ReplayDecided
PROPERTIES AttachInWindow LoginBeforeEnd Registers
CHECK_DEADLOCK FALSE
